---- MODULE Spec2Model ----
(* Card collector: the card review lifecycle, card instances (assign,      *)
(* remove, expiry), and the audit log, as implemented by the relational    *)
(* CRUD layer (src/db/crud.py, src/db/models.py), the bot commands         *)
(* (src/bot/commands.py, src/bot/admin.py), the REST handlers              *)
(* (src/web/api.py) and the background scheduler                           *)
(* (src/services/scheduler.py).                                            *)
(*                                                                         *)
(* Time is counted in minutes.  A Python Optional is a sequence of length  *)
(* at most one: None is <<>>, a present value v is <<v>>.  Card ids are    *)
(* 1, 2, ... and instance ids are InstBase + 1, InstBase + 2, ... so that,  *)
(* as with the UUIDs of the source, no card id equals an instance id.      *)
(*                                                                         *)
(* The functions that read no table or only one (permission resolution,    *)
(* request authentication, tag normalisation, pagination) are run under    *)
(* specifications of their own, in which call holds the arguments of one   *)
(* call and result what the call left; in Spec both stay None.             *)
EXTENDS Integers, Sequences, FiniteSets, TLC

VARIABLES cards, instances, audit, auditSeq, now, call, result

vars == <<cards, instances, audit, auditSeq, now, call, result>>

-----------------------------------------------------------------------------
(* Bounds of the model *)

MaxCards == 1
MaxInstances == 2
MaxAudit == 3
MaxMinutes == 1
MaxSupply == 1
MaxExpiry == 1

-----------------------------------------------------------------------------
(* Program constants *)

USER == 1
MODERATOR == 2
ADMIN == 3
OWNER == 4

RETENTION_DAYS == 90
MINUTES_PER_DAY == 1440
NAME_MAX == 100
NOTE_MAX == 200
BULK_MAX == 10
InstBase == 100

None == <<>>
Some(v) == <<v>>
Val(o) == o[1]

Users == {1, 2}
\* The callers of the commands and requests: a user id with the permission
\* level resolved for the interaction or request
Callers == {[id |-> 1, level |-> USER], [id |-> 2, level |-> MODERATOR]}
AdminCallers == Callers \cup {[id |-> 2, level |-> ADMIN]}

DRAFT == "draft"
SUBMITTED == "submitted"
APPROVED == "approved"
REJECTED == "rejected"
ARCHIVED == "archived"
CardStatus == {DRAFT, SUBMITTED, APPROVED, REJECTED, ARCHIVED}

CardIds == 1..(MaxCards + 1)
InstIds == (InstBase + 1)..(InstBase + MaxInstances + 1)

-----------------------------------------------------------------------------
(* Permissions *)

\* What a call leaves: the value returned, or an exception raised
Return(v) == [raised |-> FALSE, value |-> v]
Raise == [raised |-> TRUE, value |-> 0]

\* bot/permissions.py.  An interaction carries user_id, the id of the owner
\* of the application (app_owner_id), the guild (None in a direct message)
\* and member, the discord.Member that `guild.get_member(user_id) or
\* interaction.user` yields (None when that object is not a discord.Member).
\* A guild carries owner_id and get_member, which is FALSE for an object
\* without that method: calling it raises AttributeError.  guild_config is
\* the row GuildConfigCRUD.get_or_create returns for the guild.
get_user_permission_level_roles_last(interaction, guild_config) ==
    IF interaction.guild = None THEN Return(USER)
    ELSE IF ~Val(interaction.guild).get_member THEN Raise
    ELSE IF interaction.user_id = interaction.app_owner_id THEN Return(OWNER)
    ELSE IF Some(interaction.user_id) = Val(interaction.guild).owner_id THEN Return(ADMIN)
    ELSE IF interaction.member # None /\ Val(interaction.member).administrator
         THEN Return(ADMIN)
    ELSE IF interaction.user_id \in guild_config.admin_user_ids THEN Return(ADMIN)
    ELSE IF interaction.user_id \in guild_config.mod_user_ids THEN Return(MODERATOR)
    ELSE LET user_roles == IF interaction.member # None
                           THEN Val(interaction.member).roles ELSE {}
         IN  IF guild_config.admin_role_ids \cap user_roles # {} THEN Return(ADMIN)
             ELSE IF guild_config.mod_role_ids \cap user_roles # {} THEN Return(MODERATOR)
             ELSE IF interaction.member # None /\ Val(interaction.member).manage_messages
                  THEN Return(MODERATOR)
             ELSE IF interaction.member # None /\ Val(interaction.member).manage_roles
                  THEN Return(ADMIN)
             ELSE Return(USER)

get_user_permission_level(interaction, guild_config) ==
    IF interaction.guild = None THEN Return(USER)
    ELSE IF ~Val(interaction.guild).get_member THEN Raise
    ELSE IF interaction.user_id = interaction.app_owner_id THEN Return(OWNER)
    ELSE IF Some(interaction.user_id) = Val(interaction.guild).owner_id THEN Return(ADMIN)
    ELSE IF interaction.member # None /\ Val(interaction.member).administrator
         THEN Return(ADMIN)
    ELSE LET user_roles == IF interaction.member # None
                           THEN Val(interaction.member).roles ELSE {}
         IN  IF guild_config.admin_role_ids \cap user_roles # {} THEN Return(ADMIN)
             ELSE IF guild_config.mod_role_ids \cap user_roles # {} THEN Return(MODERATOR)
             ELSE IF interaction.user_id \in guild_config.admin_user_ids THEN Return(ADMIN)
             ELSE IF interaction.user_id \in guild_config.mod_user_ids THEN Return(MODERATOR)
             ELSE IF interaction.member # None /\ Val(interaction.member).manage_messages
                  THEN Return(MODERATOR)
             ELSE IF interaction.member # None /\ Val(interaction.member).manage_roles
                  THEN Return(ADMIN)
             ELSE Return(USER)

check_permissions(level, require_mod, require_admin, require_owner) ==
    IF require_owner THEN level >= OWNER
    ELSE IF require_admin THEN level >= ADMIN
    ELSE IF require_mod THEN level >= MODERATOR
    ELSE level >= USER

\* web/auth.py: the flags get_current_user derives from the resolved level
current_user(level) ==
    [is_moderator |-> level >= MODERATOR,
     is_admin     |-> level >= ADMIN,
     is_owner     |-> level >= OWNER]

\* The MockInteraction get_current_user builds from the token's discord_id
\* and the X-Guild-ID header: its guild is a MockGuild, which has id and
\* owner_id = None and no get_member; it has no client
\* (first, a mock interaction whose guild answers get_member, with no
\* member, and whose client answers application_info)
MockInteraction_of_a_guild(user_id, guild_id) ==
    [user_id      |-> user_id,
     app_owner_id |-> 0,
     guild        |-> Some([owner_id |-> None, get_member |-> TRUE]),
     member       |-> None]

MockInteraction(user_id, guild_id) ==
    [user_id      |-> user_id,
     app_owner_id |-> 0,
     guild        |-> Some([owner_id |-> None, get_member |-> FALSE]),
     member       |-> None]

\* A request carries credentials (a bearer token or None), the token being
\* valid or not and its payload holding discord_id or not, and guild_id, the
\* X-Guild-ID header or None.  users is the set of the ids in the users
\* table.  An exception of the permission lookup is logged and the level
\* stays USER.  Raise is the 401 of AuthenticationError.
get_current_user_moderator_default(request, users, guild_config) ==
    IF request.credentials = None THEN Raise
    ELSE IF ~Val(request.credentials).valid THEN Raise
    ELSE IF Val(request.credentials).discord_id = None THEN Raise
    ELSE LET discord_id == Val(Val(request.credentials).discord_id)
         IN  IF discord_id \notin users THEN Raise
             ELSE Return([discord_id       |-> discord_id,
                          is_moderator     |-> TRUE,
                          is_admin         |-> FALSE,
                          is_owner         |-> FALSE,
                          permission_level |-> MODERATOR,
                          guild_id         |-> request.guild_id])

get_current_user(request, users, guild_config) ==
    IF request.credentials = None THEN Raise
    ELSE IF ~Val(request.credentials).valid THEN Raise
    ELSE IF Val(request.credentials).discord_id = None THEN Raise
    ELSE LET discord_id == Val(Val(request.credentials).discord_id)
             looked_up  == get_user_permission_level(
                              MockInteraction(discord_id, request.guild_id), guild_config)
             permission_level ==
                 IF request.guild_id # None /\ ~looked_up.raised
                 THEN looked_up.value ELSE USER
         IN  IF discord_id \notin users THEN Raise
             ELSE Return([discord_id       |-> discord_id,
                          is_moderator     |-> current_user(permission_level).is_moderator,
                          is_admin         |-> current_user(permission_level).is_admin,
                          is_owner         |-> current_user(permission_level).is_owner,
                          permission_level |-> permission_level,
                          guild_id         |-> request.guild_id])

\* TRUE when the dependency lets the request through (no PermissionError)
require_permissions(cu, moderator, admin, owner) ==
    IF owner /\ ~cu.is_owner THEN FALSE
    ELSE IF admin /\ ~cu.is_admin THEN FALSE
    ELSE IF moderator /\ ~cu.is_moderator THEN FALSE
    ELSE TRUE

-----------------------------------------------------------------------------
(* db/models.py *)

\* An activity test that does not look at removed_at
is_active_unless_expired(inst, t) ==
    inst.expires_at = None \/ Val(inst.expires_at) > t

is_active(inst, t) ==
    /\ inst.removed_at = None
    /\ (inst.expires_at = None \/ Val(inst.expires_at) > t)

\* An expiry test that lets the instant of expiry itself pass as not expired
is_expired_after(inst, t) ==
    IF inst.removed_at # None THEN FALSE
    ELSE IF inst.expires_at = None THEN FALSE
    ELSE Val(inst.expires_at) < t

is_expired(inst, t) ==
    IF inst.removed_at # None THEN FALSE
    ELSE IF inst.expires_at = None THEN FALSE
    ELSE Val(inst.expires_at) <= t

InstIndex(iid) == iid - InstBase
InstExists(insts, iid) == InstIndex(iid) \in DOMAIN insts

\* Card.instances: the instances whose card_id is this card
CardInstances(insts, card_id) ==
    {k \in DOMAIN insts : insts[k].card_id = card_id}

\* A count that takes the removed instances for the active ones
current_supply_of_removed(insts, card_id, t) ==
    Cardinality({k \in CardInstances(insts, card_id) : insts[k].removed_at # None})

\* Card.current_supply, with the instances relationship loaded
current_supply(insts, card_id, t) ==
    Cardinality({k \in CardInstances(insts, card_id) : is_active(insts[k], t)})

-----------------------------------------------------------------------------
(* db/crud.py: each operation returns the new table and the returned value *)

CardCRUD_get(cs, card_id) ==
    IF card_id \in DOMAIN cs THEN Some(card_id) ELSE None

CardCRUD_create(cs, status, max_supply, created_by_user_id, t) ==
    Append(cs, [status              |-> status,
                max_supply          |-> max_supply,
                approved_by_user_id |-> None,
                created_at          |-> t,
                approved_at         |-> None])

\* An approve that does not look at the status of the card
CardCRUD_approve_any_status(cs, card_id, approved_by_user_id, t) ==
    IF card_id \in DOMAIN cs
    THEN [cards |-> [cs EXCEPT ![card_id].status = APPROVED,
                               ![card_id].approved_by_user_id = Some(approved_by_user_id),
                               ![card_id].approved_at = Some(t)],
          ret   |-> Some(card_id)]
    ELSE [cards |-> cs, ret |-> None]

CardCRUD_approve(cs, card_id, approved_by_user_id, t) ==
    IF card_id \in DOMAIN cs /\ cs[card_id].status = SUBMITTED
    THEN [cards |-> [cs EXCEPT ![card_id].status = APPROVED,
                               ![card_id].approved_by_user_id = Some(approved_by_user_id),
                               ![card_id].approved_at = Some(t)],
          ret   |-> Some(card_id)]
    ELSE [cards |-> cs, ret |-> None]

CardCRUD_reject(cs, card_id) ==
    IF card_id \in DOMAIN cs /\ cs[card_id].status = SUBMITTED
    THEN [cards |-> [cs EXCEPT ![card_id].status = REJECTED],
          ret   |-> Some(card_id)]
    ELSE [cards |-> cs, ret |-> None]

\* BaseCRUD.update: kwargs[f] = None when the key f is not passed, Some(v)
\* when it is passed with value v; only attributes of the object are set
BaseCRUD_update(cs, id, kwargs) ==
    IF id \in DOMAIN cs
    THEN [cs EXCEPT ![id] = [f \in DOMAIN cs[id] |->
                               IF f \in DOMAIN kwargs /\ kwargs[f] # None
                               THEN Val(kwargs[f]) ELSE cs[id][f]]]
    ELSE cs

Min(a, b) == IF a < b THEN a ELSE b

\* The orderings of a finite set, as sequences without repetition
Perms(S) ==
    {f \in [1..Cardinality(S) -> S] : \A i, j \in DOMAIN f : i # j => f[i] # f[j]}

\* CardCRUD.get_all with the status filter: ORDER BY created_at DESC, LIMIT,
\* OFFSET.  Rows with equal created_at come in an order the database does
\* not fix, so the result is one of a set of sequences of card ids.
CardCRUD_get_all(cs, status, limit, offset) ==
    LET match   == {c \in DOMAIN cs : status = None \/ cs[c].status = Val(status)}
        ordered == {s \in Perms(match) :
                      \A i, j \in DOMAIN s :
                         i < j => cs[s[i]].created_at >= cs[s[j]].created_at}
    IN  {SubSeq(s, offset + 1, Min(Len(s), offset + limit)) : s \in ordered}

CardInstanceCRUD_create(insts, card_id, owner_user_id, assigned_by_user_id, expires_in_minutes, t) ==
    LET expires_at == IF expires_in_minutes # None /\ Val(expires_in_minutes) # 0
                      THEN Some(t + Val(expires_in_minutes))
                      ELSE None
    IN  Append(insts, [card_id             |-> card_id,
                       owner_user_id       |-> owner_user_id,
                       expires_at          |-> expires_at,
                       removed_at          |-> None,
                       revoked_by_user_id  |-> None,
                       is_locked           |-> FALSE])

\* A remove that does not look at removed_at
CardInstanceCRUD_remove_again(insts, instance_id, removed_by_user_id, t) ==
    IF InstExists(insts, instance_id)
    THEN [instances |-> [insts EXCEPT ![InstIndex(instance_id)].removed_at = Some(t),
                                      ![InstIndex(instance_id)].revoked_by_user_id = removed_by_user_id],
          ret       |-> Some(instance_id)]
    ELSE [instances |-> insts, ret |-> None]

CardInstanceCRUD_remove(insts, instance_id, removed_by_user_id, t) ==
    IF InstExists(insts, instance_id) /\ insts[InstIndex(instance_id)].removed_at = None
    THEN [instances |-> [insts EXCEPT ![InstIndex(instance_id)].removed_at = Some(t),
                                      ![InstIndex(instance_id)].revoked_by_user_id = removed_by_user_id],
          ret       |-> Some(instance_id)]
    ELSE [instances |-> insts, ret |-> None]

\* expires_at <= now is NULL (not true) for an instance without expiry
CardInstanceCRUD_get_expired_instances(insts, t) ==
    {InstBase + k : k \in {j \in DOMAIN insts :
                             /\ insts[j].expires_at # None
                             /\ Val(insts[j].expires_at) <= t
                             /\ insts[j].removed_at = None}}

\* CardInstanceCRUD.get_card_leaderboard: GROUP BY owner, ORDER BY count
\* DESC, LIMIT.  Owners with equal counts come in an order the query does
\* not fix, so the result is one of a set of sequences of (owner, count).
CardInstanceCRUD_get_card_leaderboard(insts, limit, active_only, t) ==
    LET rows     == {k \in DOMAIN insts :
                       active_only => /\ insts[k].removed_at = None
                                      /\ \/ insts[k].expires_at = None
                                         \/ Val(insts[k].expires_at) > t}
        owners   == {insts[k].owner_user_id : k \in rows}
        count(o) == Cardinality({k \in rows : insts[k].owner_user_id = o})
        ordered  == {s \in Perms(owners) : \A i, j \in DOMAIN s :
                        i < j => count(s[i]) >= count(s[j])}
    IN  {[k \in 1..Min(limit, Len(s)) |-> <<s[k], count(s[k])>>] : s \in ordered}

CardInstanceCRUD_lock_instance(insts, instance_id, locked) ==
    IF InstExists(insts, instance_id)
    THEN [instances |-> [insts EXCEPT ![InstIndex(instance_id)].is_locked = locked],
          ret       |-> Some(instance_id)]
    ELSE [instances |-> insts, ret |-> None]

\* The tables of the database, and the count of audit rows ever written
\* (the next row's id)
DB == [cards |-> cards, instances |-> instances, audit |-> audit, auditSeq |-> auditSeq]

\* A create whose row is never committed
AuditLogCRUD_create_uncommitted(d, actor_user_id, action, target_type, target_id, t) ==
    d

AuditLogCRUD_create(d, actor_user_id, action, target_type, target_id, t) ==
    [d EXCEPT !.audit = Append(@, [id            |-> d.auditSeq + 1,
                                   actor_user_id |-> actor_user_id,
                                   action        |-> action,
                                   target_type   |-> target_type,
                                   target_id     |-> target_id,
                                   created_at    |-> t]),
              !.auditSeq = @ + 1]

Entries(aud) == {aud[k] : k \in DOMAIN aud}

\* AuditLogCRUD.get_card_history: the entries with target_type "card" and
\* this target_id, ORDER BY created_at DESC (ties in an unspecified order)
AuditLogCRUD_get_card_history(aud, card_id) ==
    LET match == {e \in Entries(aud) : e.target_type = "card" /\ e.target_id = card_id}
    IN  {s \in Perms(match) :
           \A i, j \in DOMAIN s : i < j => s[i].created_at >= s[j].created_at}

\* A cutoff that takes the days for minutes
RetentionCutoff_in_minutes(days, t) == t - days

RetentionCutoff(days, t) == t - days * MINUTES_PER_DAY

\* A cleanup that also deletes the entries created at the cutoff
AuditLogCRUD_cleanup_old_logs_inclusive(aud, days, t) ==
    LET cutoff_date == RetentionCutoff(days, t)
        count       == Cardinality({k \in DOMAIN aud : aud[k].created_at <= cutoff_date})
    IN  IF count > 0
        THEN [audit |-> SelectSeq(aud, LAMBDA e : ~(e.created_at <= cutoff_date)),
              count |-> count]
        ELSE [audit |-> aud, count |-> count]

AuditLogCRUD_cleanup_old_logs(aud, days, t) ==
    LET cutoff_date == RetentionCutoff(days, t)
        count       == Cardinality({k \in DOMAIN aud : aud[k].created_at < cutoff_date})
    IN  IF count > 0
        THEN [audit |-> SelectSeq(aud, LAMBDA e : ~(e.created_at < cutoff_date)),
              count |-> count]
        ELSE [audit |-> aud, count |-> count]

-----------------------------------------------------------------------------
(* db/mongodb_crud.py: the document-store backend, on the same documents *)

\* MongoCardCRUD.update: find_one by id, setattr of every key passed
MongoCardCRUD_update(cs, card_id, kwargs) ==
    IF card_id \in DOMAIN cs
    THEN [cards |-> [cs EXCEPT ![card_id] = [f \in DOMAIN cs[card_id] |->
                                               IF f \in DOMAIN kwargs
                                               THEN kwargs[f] ELSE cs[card_id][f]]],
          ret   |-> Some(card_id)]
    ELSE [cards |-> cs, ret |-> None]

MongoCardCRUD_approve(cs, card_id, approved_by_user_id, t) ==
    MongoCardCRUD_update(cs, card_id, [status              |-> APPROVED,
                                       approved_by_user_id |-> Some(approved_by_user_id),
                                       approved_at         |-> Some(t)])

MongoCardCRUD_reject(cs, card_id) ==
    MongoCardCRUD_update(cs, card_id, [status |-> REJECTED])

MongoCardInstanceCRUD_remove_instance(insts, instance_id, revoked_by_user_id, t) ==
    IF InstExists(insts, instance_id)
    THEN [instances |-> [insts EXCEPT ![InstIndex(instance_id)].removed_at = Some(t),
                                      ![InstIndex(instance_id)].revoked_by_user_id = revoked_by_user_id],
          ret       |-> Some(instance_id)]
    ELSE [instances |-> insts, ret |-> None]

-----------------------------------------------------------------------------
(* A handler maps the database, the time and its inputs to the database it *)
(* leaves and what it answers: res is "ok" or the kind of the error, ret   *)
(* the id the answer names (0 when it names none).                         *)

Reply(d, res, ret) == [db |-> d, res |-> res, ret |-> ret]

-----------------------------------------------------------------------------
(* bot/commands.py.  nameLen and noteLen are the lengths of the name and   *)
(* of the note; imageValid is the answer of the image validation.          *)

commands_submit_card(d, t, user, nameLen, imageValid) ==
    IF nameLen > NAME_MAX THEN Reply(d, "validation", 0)
    ELSE IF ~imageValid THEN Reply(d, "validation", 0)
    ELSE LET cs == CardCRUD_create(d.cards, SUBMITTED, None, user, t)
             id == Len(cs)
         IN  Reply(AuditLogCRUD_create([d EXCEPT !.cards = cs], user,
                                       "card_submitted", "card", id, t),
                   "ok", id)

commands_create_card(d, t, user, level, nameLen, max_supply, imageValid) ==
    IF ~check_permissions(level, TRUE, FALSE, FALSE) THEN Reply(d, "permission", 0)
    ELSE IF nameLen > NAME_MAX THEN Reply(d, "validation", 0)
    ELSE IF max_supply # None /\ Val(max_supply) < 0 THEN Reply(d, "validation", 0)
    ELSE IF ~imageValid THEN Reply(d, "validation", 0)
    ELSE LET cs0 == CardCRUD_create(d.cards, APPROVED,
                                    IF max_supply # Some(0) THEN max_supply ELSE None,
                                    user, t)
             id  == Len(cs0)
             cs  == [cs0 EXCEPT ![id].approved_by_user_id = Some(user)]
         IN  Reply(AuditLogCRUD_create([d EXCEPT !.cards = cs], user,
                                       "card_created", "card", id, t),
                   "ok", id)

commands_approve_card(d, t, user, level, card_id) ==
    IF ~check_permissions(level, TRUE, FALSE, FALSE) THEN Reply(d, "permission", 0)
    ELSE LET r == CardCRUD_approve(d.cards, card_id, user, t)
         IN  IF r.ret = None THEN Reply(d, "not_found", card_id)
             ELSE Reply(AuditLogCRUD_create([d EXCEPT !.cards = r.cards], user,
                                            "card_approved", "card", Val(r.ret), t),
                        "ok", Val(r.ret))

commands_reject_card(d, t, user, level, card_id) ==
    IF ~check_permissions(level, TRUE, FALSE, FALSE) THEN Reply(d, "permission", 0)
    ELSE LET r == CardCRUD_reject(d.cards, card_id)
         IN  IF r.ret = None THEN Reply(d, "not_found", card_id)
             ELSE Reply(AuditLogCRUD_create([d EXCEPT !.cards = r.cards], user,
                                            "card_rejected", "card", Val(r.ret), t),
                        "ok", Val(r.ret))

\* An assign that does not look at the status of the card
commands_assign_card_any_status(d, t, user, level, card_id, target, expires_in_minutes, noteLen) ==
    IF ~check_permissions(level, TRUE, FALSE, FALSE) THEN Reply(d, "permission", 0)
    ELSE IF expires_in_minutes # None /\ Val(expires_in_minutes) <= 0
         THEN Reply(d, "validation", 0)
    ELSE IF noteLen > NOTE_MAX THEN Reply(d, "validation", 0)
    ELSE IF CardCRUD_get(d.cards, card_id) = None THEN Reply(d, "not_found", card_id)
    ELSE IF /\ d.cards[card_id].max_supply # None
            /\ current_supply(d.instances, card_id, t) >= Val(d.cards[card_id].max_supply)
         THEN Reply(d, "max_supply", card_id)
    ELSE LET is  == CardInstanceCRUD_create(d.instances, card_id, target, user,
                                            expires_in_minutes, t)
             iid == InstBase + Len(is)
         IN  Reply(AuditLogCRUD_create([d EXCEPT !.instances = is], user,
                                       "card_assigned", "card_instance", iid, t),
                   "ok", iid)

commands_assign_card(d, t, user, level, card_id, target, expires_in_minutes, noteLen) ==
    IF ~check_permissions(level, TRUE, FALSE, FALSE) THEN Reply(d, "permission", 0)
    ELSE IF expires_in_minutes # None /\ Val(expires_in_minutes) <= 0
         THEN Reply(d, "validation", 0)
    ELSE IF noteLen > NOTE_MAX THEN Reply(d, "validation", 0)
    ELSE IF CardCRUD_get(d.cards, card_id) = None THEN Reply(d, "not_found", card_id)
    ELSE IF d.cards[card_id].status # APPROVED THEN Reply(d, "not_approved", card_id)
    ELSE IF /\ d.cards[card_id].max_supply # None
            /\ current_supply(d.instances, card_id, t) >= Val(d.cards[card_id].max_supply)
         THEN Reply(d, "max_supply", card_id)
    ELSE LET is  == CardInstanceCRUD_create(d.instances, card_id, target, user,
                                            expires_in_minutes, t)
             iid == InstBase + Len(is)
         IN  Reply(AuditLogCRUD_create([d EXCEPT !.instances = is], user,
                                       "card_assigned", "card_instance", iid, t),
                   "ok", iid)

commands_remove_instance(d, t, user, level, instance_id) ==
    IF ~check_permissions(level, TRUE, FALSE, FALSE) THEN Reply(d, "permission", 0)
    ELSE LET r == CardInstanceCRUD_remove(d.instances, instance_id, Some(user), t)
         IN  IF r.ret = None THEN Reply(d, "not_found", instance_id)
             ELSE Reply(AuditLogCRUD_create([d EXCEPT !.instances = r.instances], user,
                                            "card_instance_removed", "card_instance",
                                            Val(r.ret), t),
                        "ok", Val(r.ret))

\* An info command that shows an instance to whoever names it
commands_card_info_to_anyone(d, t, user, level, id) ==
    IF InstExists(d.instances, id) THEN Reply(d, "ok", id)
    ELSE IF CardCRUD_get(d.cards, id) # None THEN Reply(d, "ok", id)
    ELSE Reply(d, "not_found", 0)

\* /card info: the id is looked up as an instance first, then as a card
commands_card_info(d, t, user, level, id) ==
    IF InstExists(d.instances, id)
    THEN LET has_mod_permission == check_permissions(level, TRUE, FALSE, FALSE)
             instance == d.instances[InstIndex(id)]
         IN  IF ~has_mod_permission /\ instance.owner_user_id # user
             THEN Reply(d, "permission", 0)
             ELSE Reply(d, "ok", id)
    ELSE IF CardCRUD_get(d.cards, id) # None THEN Reply(d, "ok", id)
    ELSE Reply(d, "not_found", 0)

-----------------------------------------------------------------------------
(* bot/admin.py *)

\* the loop of bulk_approve_cards over the fetched cards
RECURSIVE bulk_approve_loop(_, _, _, _)
bulk_approve_loop(d, submitted_cards, user, t) ==
    IF submitted_cards = <<>> THEN d
    ELSE LET r  == CardCRUD_approve(d.cards, Head(submitted_cards), user, t)
             d1 == IF r.ret = None THEN d
                   ELSE AuditLogCRUD_create([d EXCEPT !.cards = r.cards], user,
                                            "card_bulk_approved", "card", Val(r.ret), t)
         IN  bulk_approve_loop(d1, Tail(submitted_cards), user, t)

\* one reply for each order in which the database may return the cards
admin_bulk_approve_cards(d, t, user, level, count) ==
    IF count <= 0 \/ count > BULK_MAX THEN {Reply(d, "validation", 0)}
    ELSE IF ~check_permissions(level, FALSE, TRUE, FALSE) THEN {Reply(d, "permission", 0)}
    ELSE {IF submitted_cards = <<>> THEN Reply(d, "none_found", 0)
          ELSE Reply(bulk_approve_loop(d, submitted_cards, user, t), "ok", 0) :
             submitted_cards \in CardCRUD_get_all(d.cards, Some(SUBMITTED), count, 0)}

-----------------------------------------------------------------------------
(* web/api.py.  A request that the dependency require_permissions refuses  *)
(* is answered 403 before the handler's body runs.                         *)

api_create_card(d, t, user, level, auto_approve, max_supply) ==
    IF ~require_permissions(current_user(level), TRUE, FALSE, FALSE)
    THEN Reply(d, "permission", 0)
    ELSE LET cs == CardCRUD_create(d.cards, IF auto_approve THEN APPROVED ELSE SUBMITTED,
                                   max_supply, user, t)
             id == Len(cs)
         IN  Reply(AuditLogCRUD_create([d EXCEPT !.cards = cs], user,
                                       "card_created_via_api", "card", id, t),
                   "ok", id)

api_submit_card(d, t, user, rarityValid, imageValid, max_supply) ==
    IF ~rarityValid THEN Reply(d, "validation", 0)
    ELSE IF ~imageValid THEN Reply(d, "validation", 0)
    ELSE LET cs == CardCRUD_create(d.cards, SUBMITTED, max_supply, user, t)
             id == Len(cs)
         IN  Reply(AuditLogCRUD_create([d EXCEPT !.cards = cs], user,
                                       "card_submitted_via_web", "card", id, t),
                   "ok", id)

\* update_data is card_update.dict(exclude_unset=True)
api_update_card(d, t, user, level, card_id, update_data) ==
    IF ~require_permissions(current_user(level), TRUE, FALSE, FALSE)
    THEN Reply(d, "permission", 0)
    ELSE IF CardCRUD_get(d.cards, card_id) = None THEN Reply(d, "not_found", card_id)
    ELSE Reply(AuditLogCRUD_create(
                   [d EXCEPT !.cards = BaseCRUD_update(d.cards, card_id, update_data)],
                   user, "card_updated_via_api", "card", card_id, t),
               "ok", card_id)

api_approve_card(d, t, user, level, card_id) ==
    IF ~require_permissions(current_user(level), TRUE, FALSE, FALSE)
    THEN Reply(d, "permission", 0)
    ELSE LET r == CardCRUD_approve(d.cards, card_id, user, t)
         IN  IF r.ret = None THEN Reply(d, "not_found", card_id)
             ELSE Reply(AuditLogCRUD_create([d EXCEPT !.cards = r.cards], user,
                                            "card_approved_via_api", "card", Val(r.ret), t),
                        "ok", Val(r.ret))

api_reject_card(d, t, user, level, card_id) ==
    IF ~require_permissions(current_user(level), TRUE, FALSE, FALSE)
    THEN Reply(d, "permission", 0)
    ELSE LET r == CardCRUD_reject(d.cards, card_id)
         IN  IF r.ret = None THEN Reply(d, "not_found", card_id)
             ELSE Reply(AuditLogCRUD_create([d EXCEPT !.cards = r.cards], user,
                                            "card_rejected_via_api", "card", Val(r.ret), t),
                        "ok", Val(r.ret))

\* expires_in_minutes and notes are query parameters, taken as given
api_assign_card_instance(d, t, user, level, card_id, owner_user_id, expires_in_minutes) ==
    IF ~require_permissions(current_user(level), TRUE, FALSE, FALSE)
    THEN Reply(d, "permission", 0)
    ELSE IF CardCRUD_get(d.cards, card_id) = None THEN Reply(d, "not_found", card_id)
    ELSE IF d.cards[card_id].status # APPROVED THEN Reply(d, "not_approved", card_id)
    ELSE IF /\ d.cards[card_id].max_supply # None
            /\ current_supply(d.instances, card_id, t) >= Val(d.cards[card_id].max_supply)
         THEN Reply(d, "max_supply", card_id)
    ELSE LET is  == CardInstanceCRUD_create(d.instances, card_id, owner_user_id, user,
                                            expires_in_minutes, t)
             iid == InstBase + Len(is)
         IN  Reply(AuditLogCRUD_create([d EXCEPT !.instances = is], user,
                                       "card_assigned_via_api", "card_instance", iid, t),
                   "ok", iid)

api_remove_card_instance(d, t, user, level, instance_id) ==
    IF ~require_permissions(current_user(level), TRUE, FALSE, FALSE)
    THEN Reply(d, "permission", 0)
    ELSE LET r == CardInstanceCRUD_remove(d.instances, instance_id, Some(user), t)
         IN  IF r.ret = None THEN Reply(d, "not_found", instance_id)
             ELSE Reply(AuditLogCRUD_create([d EXCEPT !.instances = r.instances], user,
                                            "card_instance_removed_via_api",
                                            "card_instance", Val(r.ret), t),
                        "ok", Val(r.ret))

\* GET /cards/{card_id}: no dependency on the caller
api_get_card(d, t, card_id) ==
    IF CardCRUD_get(d.cards, card_id) = None THEN Reply(d, "not_found", 0)
    ELSE Reply(d, "ok", card_id)

\* The keyword arguments CardInstanceCRUD.get_user_instances takes
get_user_instances_parameters ==
    {"db", "user_id", "active_only", "search", "rarity", "tag", "limit"}

\* GET /instances.  ret is the user whose collection is listed.  The call of
\* get_user_instances passes offset, which the method does not take: past
\* the permission check the request ends in a TypeError (500).
api_get_card_instances(d, t, user, level, user_id) ==
    LET target_user_id == IF user_id # None /\ Val(user_id) # 0 THEN Val(user_id) ELSE user
        passed == {"db", "user_id", "active_only", "limit", "offset"}
    IN  IF target_user_id # user /\ ~current_user(level).is_moderator
        THEN Reply(d, "permission", 0)
        ELSE IF ~(passed \subseteq get_user_instances_parameters)
        THEN Reply(d, "error", 0)
        ELSE Reply(d, "ok", target_user_id)

\* GET /instances/{instance_id}
api_get_card_instance(d, t, user, level, instance_id) ==
    IF ~InstExists(d.instances, instance_id) THEN Reply(d, "not_found", 0)
    ELSE IF /\ d.instances[InstIndex(instance_id)].owner_user_id # user
            /\ ~current_user(level).is_moderator
    THEN Reply(d, "permission", 0)
    ELSE Reply(d, "ok", instance_id)

\* GET /leaderboard: the answers the endpoint can give
get_leaderboard(d, t, limit) ==
    {[k \in DOMAIN data |-> [user_id |-> data[k][1], card_count |-> data[k][2]]] :
        data \in CardInstanceCRUD_get_card_leaderboard(d.instances, limit, TRUE, t)}

-----------------------------------------------------------------------------
(* services/scheduler.py *)

\* What becomes of one fetched instance: it is processed ("done"), or an
\* exception leaves CardInstanceCRUD.remove ("remove") or the writing of the
\* audit entry ("audit"); the except clause of the loop logs it and goes on
ExpiryOutcomes == {"done", "remove", "audit"}

\* A loop that an exception ends
RECURSIVE process_expired_loop_until_failure(_, _, _, _)
process_expired_loop_until_failure(d, expired_instances, outcome, t) ==
    IF expired_instances = <<>> THEN d
    ELSE IF outcome[Head(expired_instances)] = "remove" THEN d
    ELSE LET r == CardInstanceCRUD_remove(d.instances, Head(expired_instances), None, t)
         IN  IF outcome[Head(expired_instances)] = "audit"
             THEN [d EXCEPT !.instances = r.instances]
             ELSE process_expired_loop_until_failure(
                     AuditLogCRUD_create([d EXCEPT !.instances = r.instances], 0,
                                         "card_instance_expired", "card_instance",
                                         Head(expired_instances), t),
                     Tail(expired_instances), outcome, t)

\* the loop of process_expired_cards over the fetched instances; what
\* remove returns is not looked at
RECURSIVE process_expired_loop(_, _, _, _)
process_expired_loop(d, expired_instances, outcome, t) ==
    IF expired_instances = <<>> THEN d
    ELSE IF outcome[Head(expired_instances)] = "remove"
    THEN process_expired_loop(d, Tail(expired_instances), outcome, t)
    ELSE LET r == CardInstanceCRUD_remove(d.instances, Head(expired_instances), None, t)
         IN  IF outcome[Head(expired_instances)] = "audit"
             THEN process_expired_loop([d EXCEPT !.instances = r.instances],
                                       Tail(expired_instances), outcome, t)
             ELSE process_expired_loop(
                     AuditLogCRUD_create([d EXCEPT !.instances = r.instances], 0,
                                         "card_instance_expired", "card_instance",
                                         Head(expired_instances), t),
                     Tail(expired_instances), outcome, t)

\* one reply for each order in which the database may return the instances
\* and each outcome of the instances
process_expired_cards(d, t) ==
    LET fetched == CardInstanceCRUD_get_expired_instances(d.instances, t)
    IN  {Reply(process_expired_loop(d, expired_instances, outcome, t),
               IF expired_instances = <<>> THEN "none_found" ELSE "ok", 0) :
            expired_instances \in Perms(fetched), outcome \in [fetched -> ExpiryOutcomes]}

cleanup_audit_logs(d, t) ==
    LET r == AuditLogCRUD_cleanup_old_logs(d.audit, RETENTION_DAYS, t)
    IN  Reply([d EXCEPT !.audit = r.audit], IF r.count > 0 THEN "ok" ELSE "none_found", 0)

-----------------------------------------------------------------------------
(* The state machine *)

Init ==
    /\ cards = <<>>
    /\ instances = <<>>
    /\ audit = <<>>
    /\ auditSeq = 0
    /\ now = 0
    /\ call = None
    /\ result = None

\* The tables stay within the bounds of the model
Bounded(d) ==
    /\ Len(d.cards) <= MaxCards
    /\ Len(d.instances) <= MaxInstances
    /\ d.auditSeq <= MaxAudit

\* A handler runs to its end and leaves the database of its reply r
Handle(r) ==
    /\ Bounded(r.db)
    /\ cards' = r.db.cards
    /\ instances' = r.db.instances
    /\ audit' = r.db.audit
    /\ auditSeq' = r.db.auditSeq
    /\ UNCHANGED <<now, call, result>>

Bot_submit_card(user, nameLen, imageValid) ==
    \E r \in {commands_submit_card(DB, now, user, nameLen, imageValid)} : Handle(r)

Bot_create_card(user, level, nameLen, max_supply, imageValid) ==
    \E r \in {commands_create_card(DB, now, user, level, nameLen, max_supply, imageValid)} : Handle(r)

Bot_approve_card(user, level, card_id) ==
    \E r \in {commands_approve_card(DB, now, user, level, card_id)} : Handle(r)

Bot_reject_card(user, level, card_id) ==
    \E r \in {commands_reject_card(DB, now, user, level, card_id)} : Handle(r)

Bot_assign_card(user, level, card_id, target, expires_in_minutes, noteLen) ==
    \E r \in {commands_assign_card(DB, now, user, level, card_id, target,
                expires_in_minutes, noteLen)} : Handle(r)

Bot_remove_instance(user, level, instance_id) ==
    \E r \in {commands_remove_instance(DB, now, user, level, instance_id)} : Handle(r)

Admin_bulk_approve_cards(user, level, count) ==
    \E r \in admin_bulk_approve_cards(DB, now, user, level, count) : Handle(r)

Api_create_card(user, level, auto_approve, max_supply) ==
    \E r \in {api_create_card(DB, now, user, level, auto_approve, max_supply)} : Handle(r)

Api_submit_card(user, rarityValid, imageValid, max_supply) ==
    \E r \in {api_submit_card(DB, now, user, rarityValid, imageValid, max_supply)} : Handle(r)

Api_update_card(user, level, card_id, update_data) ==
    \E r \in {api_update_card(DB, now, user, level, card_id, update_data)} : Handle(r)

Api_approve_card(user, level, card_id) ==
    \E r \in {api_approve_card(DB, now, user, level, card_id)} : Handle(r)

Api_reject_card(user, level, card_id) ==
    \E r \in {api_reject_card(DB, now, user, level, card_id)} : Handle(r)

Api_assign_card_instance(user, level, card_id, owner_user_id, expires_in_minutes) ==
    \E r \in {api_assign_card_instance(DB, now, user, level, card_id, owner_user_id,
                expires_in_minutes)} : Handle(r)

Api_remove_card_instance(user, level, instance_id) ==
    \E r \in {api_remove_card_instance(DB, now, user, level, instance_id)} : Handle(r)

Bot_card_info(user, level, id) ==
    \E r \in {commands_card_info(DB, now, user, level, id)} : Handle(r)

Api_get_card(card_id) ==
    \E r \in {api_get_card(DB, now, card_id)} : Handle(r)

Api_get_card_instances(user, level, user_id) ==
    \E r \in {api_get_card_instances(DB, now, user, level, user_id)} : Handle(r)

Api_get_card_instance(user, level, instance_id) ==
    \E r \in {api_get_card_instance(DB, now, user, level, instance_id)} : Handle(r)

Sched_process_expired_cards ==
    \E r \in process_expired_cards(DB, now) : Handle(r)

Sched_cleanup_audit_logs ==
    \E r \in {cleanup_audit_logs(DB, now)} : Handle(r)

\* CardInstanceCRUD.lock_instance has no caller among the commands and the
\* endpoints: it is taken as callable on the CRUD layer at any time
Crud_lock_instance(instance_id, locked) ==
    \E r \in {CardInstanceCRUD_lock_instance(instances, instance_id, locked)} :
       /\ instances' = r.instances
       /\ UNCHANGED <<cards, audit, auditSeq, now, call, result>>

\* The clock: a minute passes, or the retention period passes
RETENTION_MINUTES == RETENTION_DAYS * MINUTES_PER_DAY
TimeSteps == {1, RETENTION_MINUTES}

Advance(minutes) ==
    /\ (now + minutes) % RETENTION_MINUTES <= MaxMinutes
    /\ now + minutes <= RETENTION_MINUTES + MaxMinutes
    /\ now' = now + minutes
    /\ UNCHANGED <<cards, instances, audit, auditSeq, call, result>>

-----------------------------------------------------------------------------
(* The inputs drawn *)

NameLens == {NAME_MAX, NAME_MAX + 1}
NoteLens == {NOTE_MAX, NOTE_MAX + 1}
BulkCounts == {0, 1, BULK_MAX, BULK_MAX + 1}
\* max_supply as the API takes it (ge=1) and as the bot command takes it
SupplyValues == {None} \cup {Some(k) : k \in 1..MaxSupply}
MaxSupplyInputs == SupplyValues \cup {Some(-1), Some(0)}
\* expires_in_minutes as the API takes it (any integer) and as the bot command
\* takes it
ExpiryInputs == {None} \cup {Some(k) : k \in (-1)..MaxExpiry}
BotExpiryInputs == {None} \cup {Some(k) : k \in 0..MaxExpiry}
\* PATCH bodies: status is left out or given
UpdateData == [status : {None} \cup {Some(s) : s \in CardStatus}]

\* The user_id query parameter of GET /instances: left out or given
UserIdParams == {None} \cup {Some(u) : u \in Users}

\* Guild configurations with user lists only, and the requests drawn
AuthConfigs == [admin_role_ids : {{}}, mod_role_ids : {{}},
                admin_user_ids : SUBSET Users, mod_user_ids : SUBSET Users]
GuildIds == {1}
Credentials == {None} \cup {Some(c) : c \in [valid : BOOLEAN,
                                             discord_id : {None} \cup {Some(u) : u \in Users}]}
WebRequests == [credentials : Credentials, guild_id : {None} \cup {Some(g) : g \in GuildIds}]

\* The callers of the endpoints: what get_current_user makes of a request
\* that it lets through, the users table holding every user
WebUsers ==
    {a.value : a \in {r \in {get_current_user(q, Users, g) : q \in WebRequests, g \in AuthConfigs} :
                         ~r.raised}}
WebCallers == {[id |-> cu.discord_id, level |-> cu.permission_level] : cu \in WebUsers}
\* Those of requests without the X-Guild-ID header
HeaderlessUsers == {cu \in WebUsers : cu.guild_id = None}

Next ==
    \/ \E u \in Users, n \in NameLens, v \in BOOLEAN : Bot_submit_card(u, n, v)
    \/ \E k \in Callers, n \in NameLens, m \in MaxSupplyInputs, v \in BOOLEAN :
          Bot_create_card(k.id, k.level, n, m, v)
    \/ \E k \in Callers, c \in CardIds : Bot_approve_card(k.id, k.level, c)
    \/ \E k \in Callers, c \in CardIds : Bot_reject_card(k.id, k.level, c)
    \/ \E k \in Callers, c \in CardIds, o \in Users, e \in BotExpiryInputs, n \in NoteLens :
          Bot_assign_card(k.id, k.level, c, o, e, n)
    \/ \E k \in Callers, i \in InstIds : Bot_remove_instance(k.id, k.level, i)
    \/ \E k \in AdminCallers, n \in BulkCounts : Admin_bulk_approve_cards(k.id, k.level, n)
    \/ \E k \in WebCallers, a \in BOOLEAN, m \in SupplyValues : Api_create_card(k.id, k.level, a, m)
    \/ \E k \in WebCallers, r \in BOOLEAN, v \in BOOLEAN, m \in SupplyValues :
          Api_submit_card(k.id, r, v, m)
    \/ \E k \in WebCallers, c \in CardIds, u \in UpdateData : Api_update_card(k.id, k.level, c, u)
    \/ \E k \in WebCallers, c \in CardIds : Api_approve_card(k.id, k.level, c)
    \/ \E k \in WebCallers, c \in CardIds : Api_reject_card(k.id, k.level, c)
    \/ \E k \in WebCallers, c \in CardIds, o \in Users, e \in ExpiryInputs :
          Api_assign_card_instance(k.id, k.level, c, o, e)
    \/ \E k \in WebCallers, i \in InstIds : Api_remove_card_instance(k.id, k.level, i)
    \/ \E k \in Callers, i \in CardIds \cup InstIds : Bot_card_info(k.id, k.level, i)
    \/ \E c \in CardIds : Api_get_card(c)
    \/ \E k \in WebCallers, u \in UserIdParams : Api_get_card_instances(k.id, k.level, u)
    \/ \E k \in WebCallers, i \in InstIds : Api_get_card_instance(k.id, k.level, i)
    \/ Sched_process_expired_cards
    \/ Sched_cleanup_audit_logs
    \/ \E i \in InstIds, b \in BOOLEAN : Crud_lock_instance(i, b)
    \/ \E m \in TimeSteps : Advance(m)

Spec == Init /\ [][Next]_vars

-----------------------------------------------------------------------------
(* Permission resolution on its own: one interaction, resolved once *)

RoleIds == {1, 2}
Members == [administrator : BOOLEAN, manage_messages : BOOLEAN,
            manage_roles : BOOLEAN, roles : SUBSET RoleIds]
Guilds == [owner_id : {Some(u) : u \in Users}, get_member : {TRUE}]
\* Interactions of user 1: in a direct message, or in a guild
Interactions ==
    [user_id : {1}, app_owner_id : Users, guild : {None}, member : {None}]
    \cup [user_id : {1}, app_owner_id : Users, guild : {Some(g) : g \in Guilds},
          member : {None} \cup {Some(m) : m \in Members}]
GuildConfigs == [admin_role_ids : SUBSET RoleIds, mod_role_ids : SUBSET RoleIds,
                 admin_user_ids : SUBSET Users, mod_user_ids : SUBSET Users]

\* The tables are empty and stay so under the specifications of one call
NoTables ==
    /\ cards = <<>>
    /\ instances = <<>>
    /\ audit = <<>>
    /\ auditSeq = 0
    /\ now = 0

InitPermissions ==
    /\ NoTables
    /\ call \in [interaction : Interactions, guild_config : GuildConfigs]
    /\ result = None

Bot_get_user_permission_level ==
    /\ result = None
    /\ result' = Some(get_user_permission_level(call.interaction, call.guild_config))
    /\ UNCHANGED <<cards, instances, audit, auditSeq, now, call>>

NextPermissions == Bot_get_user_permission_level

SpecPermissions == InitPermissions /\ [][NextPermissions]_vars

-----------------------------------------------------------------------------
(* Properties *)

\* C1: for every card id that is unknown or whose card is not SUBMITTED,
\* CardCRUD.approve and CardCRUD.reject return None and leave the cards
\* (status, approver, approved_at) as they are; a SUBMITTED card is moved to
\* APPROVED by approve and to REJECTED by reject.
C1_ApproveRejectOnlySubmitted ==
    \A c \in CardIds, u \in Users :
       LET a == CardCRUD_approve(cards, c, u, now)
           r == CardCRUD_reject(cards, c)
       IN  IF c \in DOMAIN cards /\ cards[c].status = "submitted"
           THEN /\ a.ret = Some(c) /\ a.cards[c].status = "approved"
                /\ r.ret = Some(c) /\ r.cards[c].status = "rejected"
           ELSE /\ a.ret = None /\ a.cards = cards
                /\ r.ret = None /\ r.cards = cards

\* An approved card, approved before now, on which approve returns None
C1_Witness ==
    \E c \in DOMAIN cards :
       /\ cards[c].status = "approved"
       /\ cards[c].approved_at # None
       /\ Val(cards[c].approved_at) < now
       /\ CardCRUD_approve(cards, c, 1, now).ret = None
       /\ commands_approve_card(DB, now, 2, MODERATOR, c).res = "not_found"

ActiveCount(c, t) ==
    Cardinality({i \in DOMAIN instances :
                   /\ instances[i].card_id = c
                   /\ instances[i].removed_at = None
                   /\ (instances[i].expires_at = None \/ Val(instances[i].expires_at) > t)})

\* C3: an assign by a moderator, bot command or POST /instances, on an
\* approved card whose max_supply is not null and whose count of active
\* instances is >= max_supply answers the maximum-supply error and leaves
\* instances and audit log as they are; on a card whose max_supply is null
\* no assign answers the maximum-supply error.
C3_SupplyLimit ==
    \A c \in DOMAIN cards, o \in Users, e \in {None, Some(1)} :
       LET b == commands_assign_card(DB, now, 2, MODERATOR, c, o, e, NOTE_MAX)
           a == api_assign_card_instance(DB, now, 2, MODERATOR, c, o, e)
       IN  /\ ( /\ cards[c].status = "approved"
                /\ cards[c].max_supply # None
                /\ ActiveCount(c, now) >= Val(cards[c].max_supply) )
              => /\ b.res = "max_supply" /\ b.db = DB
                 /\ a.res = "max_supply" /\ a.db = DB
           /\ cards[c].max_supply = None
              => b.res # "max_supply" /\ a.res # "max_supply"

\* A card at its limit by an instance that is active, beside one that
\* expired, on which both assigns answer the maximum-supply error
C3_Witness ==
    \E c \in DOMAIN cards :
       /\ cards[c].status = "approved"
       /\ cards[c].max_supply = Some(1)
       /\ ActiveCount(c, now) = 1
       /\ Len(instances) = 2
       /\ commands_assign_card(DB, now, 2, MODERATOR, c, 1, None, NOTE_MAX).res = "max_supply"
       /\ api_assign_card_instance(DB, now, 2, MODERATOR, c, 1, None).res = "max_supply"

\* C4: an assign, bot command or POST /instances, answers ok only when the
\* card exists and is APPROVED at that moment, and then adds one instance,
\* of that card; for a missing card or a card in another status it does not
\* answer ok and leaves instances and audit log as they are.  So every
\* instance refers to an existing card.
C4_AssignOnlyApproved ==
    /\ \A k \in Callers, c \in CardIds, o \in Users, e \in ExpiryInputs, n \in NoteLens :
          LET b == commands_assign_card(DB, now, k.id, k.level, c, o, e, n)
              a == api_assign_card_instance(DB, now, k.id, k.level, c, o, e)
              approved == c \in DOMAIN cards /\ cards[c].status = "approved"
          IN  \A r \in {a, b} :
                 /\ r.res = "ok"
                    => /\ approved
                       /\ Len(r.db.instances) = Len(instances) + 1
                       /\ SubSeq(r.db.instances, 1, Len(instances)) = instances
                       /\ r.db.instances[Len(instances) + 1].card_id = c
                 /\ ~approved
                    => /\ r.res # "ok"
                       /\ r.db.instances = instances
                       /\ r.db.audit = audit
    /\ \A i \in DOMAIN instances : instances[i].card_id \in DOMAIN cards

\* A card that was submitted and rejected: both assigns answer that the
\* card is not approved
C4_Witness ==
    \E c \in DOMAIN cards :
       /\ cards[c].status = "rejected"
       /\ cards[c].created_at < now
       /\ instances = <<>>
       /\ commands_assign_card(DB, now, 2, MODERATOR, c, 1, None, NOTE_MAX).res = "not_approved"
       /\ api_assign_card_instance(DB, now, 2, MODERATOR, c, 1, None).res = "not_approved"

\* C5: on an instance that is already removed, CardInstanceCRUD.remove
\* returns None and leaves the instances (removal timestamp, revoker) as
\* they are, and the bot command and the endpoint write no audit entry; for
\* every instance id, a remove after a remove leaves what the first left.
C5_RemoveIdempotent ==
    \A i \in InstIds, u \in Users, v \in Users :
       LET r1 == CardInstanceCRUD_remove(instances, i, Some(u), now)
           r2 == CardInstanceCRUD_remove(r1.instances, i, Some(v), now + 1)
           b  == commands_remove_instance(DB, now, 2, MODERATOR, i)
           a  == api_remove_card_instance(DB, now, 2, MODERATOR, i)
       IN  /\ r2.instances = r1.instances
           /\ (InstExists(instances, i) /\ instances[InstIndex(i)].removed_at # None)
              => /\ r1.ret = None
                 /\ r1.instances = instances
                 /\ b.res = "not_found" /\ b.db = DB
                 /\ a.res = "not_found" /\ a.db = DB

\* An instance removed by a moderator before now, on which remove returns
\* None
C5_Witness ==
    \E i \in DOMAIN instances :
       /\ instances[i].removed_at # None
       /\ Val(instances[i].removed_at) < now
       /\ instances[i].revoked_by_user_id = Some(2)
       /\ CardInstanceCRUD_remove(instances, InstBase + i, Some(1), now).ret = None
       /\ Len(audit) = 3

\* C6: once the removal timestamp of an instance is set, no step changes it,
\* and the instance is not active at any later time.
C6_RemovalMonotonic ==
    [][\A i \in DOMAIN instances :
          instances[i].removed_at # None
             => /\ instances'[i].removed_at = instances[i].removed_at
                /\ ~is_active(instances'[i], now')]_vars

\* An instance removed by the scheduler, with the clock past its removal
C6_Witness ==
    \E i \in DOMAIN instances :
       /\ instances[i].removed_at # None
       /\ instances[i].revoked_by_user_id = None
       /\ Val(instances[i].removed_at) < now
       /\ ~is_active(instances[i], now)

\* C7: for every instance, at every time: is_active holds iff the removal
\* timestamp is absent and the expiry is absent or later than the time;
\* is_expired holds iff the removal timestamp is absent, the expiry is
\* present and not later than the time; a non-removed instance is exactly
\* one of active and expired, a removed one is neither; and
\* get_expired_instances returns exactly the instances that are expired.
C7_ActiveExpired ==
    \A t \in {now, now + 1} :
       /\ \A i \in DOMAIN instances :
             LET inst    == instances[i]
                 active  == is_active(inst, t)
                 expired == is_expired(inst, t)
             IN  /\ active <=> ( /\ inst.removed_at = None
                                 /\ (inst.expires_at = None \/ Val(inst.expires_at) > t) )
                 /\ expired <=> ( /\ inst.removed_at = None
                                  /\ inst.expires_at # None
                                  /\ Val(inst.expires_at) <= t )
                 /\ inst.removed_at = None => (active <=> ~expired)
                 /\ inst.removed_at # None => (~active /\ ~expired)
       /\ CardInstanceCRUD_get_expired_instances(instances, t)
             = {InstBase + i : i \in {j \in DOMAIN instances : is_expired(instances[j], t)}}

\* An instance at the instant of its expiry, beside one without expiry
C7_Witness ==
    /\ \E i \in DOMAIN instances :
          /\ instances[i].removed_at = None
          /\ instances[i].expires_at = Some(now)
          /\ is_expired(instances[i], now)
    /\ \E i \in DOMAIN instances :
          /\ instances[i].expires_at = None
          /\ is_active(instances[i], now)

\* The reply r of a handler run on the present database added one audit
\* entry, of this action name and this target id, and changed no other
Logged(r, action, target_id) ==
    /\ Len(r.db.audit) = Len(audit) + 1
    /\ SubSeq(r.db.audit, 1, Len(audit)) = audit
    /\ r.db.audit[Len(audit) + 1].action = action
    /\ r.db.audit[Len(audit) + 1].target_id = target_id

\* The reply r is ok with that one entry, or is an error with none
Audited(r, action, target_id) ==
    IF r.res = "ok" THEN Logged(r, action, target_id) ELSE r.db.audit = audit

\* C8: every card approve, reject, create, assign and remove, bot command or
\* API call, that succeeds adds exactly one audit entry, whose action names
\* the operation and whose target_id is the id of the card (approve, reject,
\* create) or of the instance (assign, remove) acted on; one that fails adds
\* none.
C8_OneAuditEntryPerSuccess ==
    /\ \A k \in Callers, c \in CardIds :
          /\ Audited(commands_approve_card(DB, now, k.id, k.level, c), "card_approved", c)
          /\ Audited(api_approve_card(DB, now, k.id, k.level, c), "card_approved_via_api", c)
          /\ Audited(commands_reject_card(DB, now, k.id, k.level, c), "card_rejected", c)
          /\ Audited(api_reject_card(DB, now, k.id, k.level, c), "card_rejected_via_api", c)
          /\ \A o \in Users, e \in ExpiryInputs, n \in NoteLens :
                /\ Audited(commands_assign_card(DB, now, k.id, k.level, c, o, e, n),
                           "card_assigned", InstBase + Len(instances) + 1)
                /\ Audited(api_assign_card_instance(DB, now, k.id, k.level, c, o, e),
                           "card_assigned_via_api", InstBase + Len(instances) + 1)
    /\ \A k \in Callers, i \in InstIds :
          /\ Audited(commands_remove_instance(DB, now, k.id, k.level, i),
                     "card_instance_removed", i)
          /\ Audited(api_remove_card_instance(DB, now, k.id, k.level, i),
                     "card_instance_removed_via_api", i)
    /\ \A k \in Callers, m \in MaxSupplyInputs, n \in NameLens, v \in BOOLEAN :
          Audited(commands_create_card(DB, now, k.id, k.level, n, m, v),
                  "card_created", Len(cards) + 1)
    /\ \A k \in Callers, m \in SupplyValues, a \in BOOLEAN :
          Audited(api_create_card(DB, now, k.id, k.level, a, m),
                  "card_created_via_api", Len(cards) + 1)

\* The log of a create, an assign and a remove that succeeded, each entry
\* with the id acted on, in a state where a second remove adds nothing
C8_Witness ==
    /\ Len(audit) = 3
    /\ audit[1].action = "card_created" /\ audit[1].target_id = 1
    /\ audit[2].action = "card_assigned" /\ audit[2].target_id = InstBase + 1
    /\ audit[3].action = "card_instance_removed" /\ audit[3].target_id = InstBase + 1
    /\ commands_remove_instance(DB, now, 2, MODERATOR, InstBase + 1).res = "not_found"

\* C9: after a user submitted a card, a moderator approved it and a
\* moderator assigned it without expiry to a second user, all by bot
\* commands, the card is APPROVED with approved_at set, exactly one active
\* instance exists (current_supply = 1), and get_card_history for the id of
\* the card returns exactly three entries: submitted, approved, assigned, in
\* chronological order.
C9_SubmitApproveAssignHistory ==
    ( /\ Len(audit) = 3
      /\ audit[1].action = "card_submitted"
      /\ audit[2].action = "card_approved"
      /\ audit[3].action = "card_assigned"
      /\ Len(instances) = 1
      /\ instances[1].expires_at = None
      /\ instances[1].owner_user_id # audit[1].actor_user_id )
    => LET c == audit[1].target_id
       IN  /\ cards[c].status = "approved"
           /\ cards[c].approved_at # None
           /\ current_supply(instances, c, now) = 1
           /\ \A h \in AuditLogCRUD_get_card_history(audit, c) :
                 /\ Len(h) = 3
                 /\ h[1].action = "card_submitted"
                 /\ h[2].action = "card_approved"
                 /\ h[3].action = "card_assigned"

\* C10: no step changes or deletes an entry of the audit log, and the log
\* only grows at its end, except that the entries older than the retention
\* cutoff are removed together (cleanup_old_logs), the others staying as
\* they are.
C10_AuditAppendOnly ==
    [][\/ /\ Len(audit') >= Len(audit)
          /\ SubSeq(audit', 1, Len(audit)) = audit
       \/ /\ audit' = SelectSeq(audit, LAMBDA e : e.created_at >= now - RETENTION_MINUTES)
          /\ \E k \in DOMAIN audit : audit[k].created_at < now - RETENTION_MINUTES]_vars

\* A log from which the cleanup removed entries and kept a newer one
C10_Witness ==
    /\ auditSeq = 3
    /\ Len(audit) = 1
    /\ audit[1].id = 3
    /\ audit[1].created_at >= now - RETENTION_MINUTES

-----------------------------------------------------------------------------
(* Tag normalisation on its own.  A string is a sequence of characters; the *)
(* characters are a letter, the blank and the comma.                        *)

TAG_LEN == 50
TAGS_MAX == 10

Rep(c, n) == [i \in 1..n |-> c]
Truncate(s, n) == SubSeq(s, 1, Min(Len(s), n))

\* str.strip
strip(s) ==
    LET inked == {i \in DOMAIN s : s[i] # " "}
    IN  IF inked = {} THEN <<>>
        ELSE SubSeq(s, CHOOSE i \in inked : \A j \in inked : i <= j,
                       CHOOSE i \in inked : \A j \in inked : i >= j)

RECURSIVE split(_)
\* str.split(",")
split(s) ==
    LET commas == {i \in DOMAIN s : s[i] = ","}
    IN  IF commas = {} THEN <<s>>
        ELSE LET k == CHOOSE i \in commas : \A j \in commas : i <= j
             IN  <<SubSeq(s, 1, k - 1)>> \o split(SubSeq(s, k + 1, Len(s)))

RECURSIVE join(_)
\* ",".join
join(l) ==
    IF l = <<>> THEN <<>>
    ELSE IF Len(l) = 1 THEN l[1]
    ELSE l[1] \o <<",">> \o join(Tail(l))

NotBlank(tag) == strip(tag) # <<>>
Stripped(l) == [i \in DOMAIN l |-> strip(l[i])]
StrippedCut(l) == [i \in DOMAIN l |-> Truncate(strip(l[i]), TAG_LEN)]

\* Card.tag_list, setter and getter, on the CSV column tags
Card_set_tag_list(tags) == IF tags # <<>> THEN Some(join(tags)) ELSE None
Card_tag_list(tags) ==
    IF tags = None \/ Val(tags) = <<>> THEN <<>>
    ELSE Stripped(SelectSeq(split(Val(tags)), NotBlank))

\* CardCRUD.create: `if tags: card.tag_list = tags`, tags None or a list
CardCRUD_create_tags(tags) ==
    IF tags # None /\ Val(tags) # <<>> THEN Card_set_tag_list(Val(tags)) ELSE None

\* bot submit_card and create_card: the tags option parsed
commands_parse_tags(tags) ==
    IF tags = <<>> THEN None
    ELSE Some(Truncate(StrippedCut(SelectSeq(split(tags), NotBlank)), TAGS_MAX))

\* POST /cards/submit: the tags form field parsed
api_submit_parse_tags(tags) ==
    IF tags = <<>> THEN None
    ELSE LET tag_list == Stripped(SelectSeq(split(tags), NotBlank))
         IN  Some(IF Len(tag_list) > TAGS_MAX THEN Truncate(tag_list, TAGS_MAX)
                  ELSE tag_list)

\* CardBase.validate_tags, the validator of the tags of a JSON body
CardBase_validate_tags(v) ==
    IF v = None THEN None
    ELSE Some(StrippedCut(SelectSeq(Truncate(Val(v), TAGS_MAX), NotBlank)))

\* The tags drawn: none, blank, short, padded, of the longest length kept,
\* longer, and with a blank at the place of the cut
RawTags == {<<>>, <<" ">>, <<"a">>, <<" ", "a", " ">>, Rep("a", TAG_LEN),
            Rep("a", TAG_LEN + 1), Rep("a", TAG_LEN - 1) \o <<" ", "a">>}
\* The lists drawn: 0, TAGS_MAX - 1 or TAGS_MAX short tags, then up to two
\* of the tags drawn
TagLists ==
    {Rep(<<"a">>, n) \o l : n \in {0, TAGS_MAX - 1, TAGS_MAX},
                            l \in {<<>>} \cup {<<x>> : x \in RawTags}
                                   \cup {<<x, y>> : x, y \in RawTags}}

InitTags ==
    /\ NoTables
    /\ call \in [tags : TagLists]
    /\ result = None

\* What a call of a path leaves: the tag list read back from the card
Stored(path, tags) == Some([path |-> path, tag_list |-> Card_tag_list(CardCRUD_create_tags(tags))])

Bot_parse_tags ==
    /\ result = None
    /\ result' = Stored("bot", commands_parse_tags(join(call.tags)))
    /\ UNCHANGED <<cards, instances, audit, auditSeq, now, call>>

Api_submit_parse_tags ==
    /\ result = None
    /\ result' = Stored("submit", api_submit_parse_tags(join(call.tags)))
    /\ UNCHANGED <<cards, instances, audit, auditSeq, now, call>>

Api_validate_tags ==
    /\ result = None
    /\ result' = Stored("json", CardBase_validate_tags(Some(call.tags)))
    /\ UNCHANGED <<cards, instances, audit, auditSeq, now, call>>

NextTags ==
    \/ Bot_parse_tags
    \/ Api_submit_parse_tags
    \/ Api_validate_tags

SpecTags == InitTags /\ [][NextTags]_vars

-----------------------------------------------------------------------------
(* GET /cards on its own: a table of cards, one request *)

MaxPageCards == 3
MaxLimit == 2

\* get_cards: one row more than limit is asked for, to tell whether more
\* rows follow; the answer is one of a set, as the order of get_all is
get_cards_no_extra(cs, status, limit, offset) ==
    {[items    |-> rows,
      total    |-> Len(rows),
      has_more |-> Len(rows) > limit,
      offset   |-> offset,
      limit    |-> limit] : rows \in CardCRUD_get_all(cs, status, limit, offset)}

get_cards(cs, status, limit, offset) ==
    {LET has_more == Len(rows) > limit
         items    == IF has_more THEN SubSeq(rows, 1, Len(rows) - 1) ELSE rows
     IN  [items    |-> items,
          total    |-> Len(items),
          has_more |-> has_more,
          offset   |-> offset,
          limit    |-> limit] : rows \in CardCRUD_get_all(cs, status, limit + 1, offset)}

\* Tables of up to MaxPageCards cards, submitted or approved, created at
\* time 0 or 1
CardTables ==
    UNION {[1..n -> [status : {SUBMITTED, APPROVED}, max_supply : {None},
                     approved_by_user_id : {None}, created_at : {0, 1},
                     approved_at : {None}]] : n \in 0..MaxPageCards}

InitPage ==
    /\ cards \in CardTables
    /\ instances = <<>>
    /\ audit = <<>>
    /\ auditSeq = 0
    /\ now = 1
    /\ call \in [status : {None, Some(SUBMITTED), Some(APPROVED)},
                 limit : 0..MaxLimit, offset : 0..MaxPageCards]
    /\ result = None

Api_get_cards ==
    /\ result = None
    /\ \E r \in get_cards(cards, call.status, call.limit, call.offset) : result' = Some(r)
    /\ UNCHANGED <<cards, instances, audit, auditSeq, now, call>>

NextPage == Api_get_cards

SpecPage == InitPage /\ [][NextPage]_vars

-----------------------------------------------------------------------------
(* Request authentication on its own: one request, resolved once *)

InitAuth ==
    /\ NoTables
    /\ call \in [request : WebRequests, users : {Users, {1}}, guild_config : AuthConfigs]
    /\ result = None

Web_get_current_user ==
    /\ result = None
    /\ result' = Some(get_current_user(call.request, call.users, call.guild_config))
    /\ UNCHANGED <<cards, instances, audit, auditSeq, now, call>>

NextAuth == Web_get_current_user

SpecAuth == InitAuth /\ [][NextAuth]_vars

-----------------------------------------------------------------------------
(* The health check on its own: one backend, asked once.  A backend is the *)
(* configured type together with what the document store does when asked:  *)
(* fails names the call that raises, error the text of the exception.      *)

MaxStat == 2

\* dict.get(key, default) on the dbStats answer
Get(o, default) == IF o = None THEN default ELSE Val(o)

\* db/mongodb_base.py
mongodb_health_check(backend) ==
    IF backend.fails # "none"
    THEN [status |-> "unhealthy", error |-> backend.error]
    ELSE [status            |-> "healthy",
          ping              |-> "ok",
          database_name     |-> "card_collector",
          collections_count |-> Get(backend.stats.collections, 0),
          data_size         |-> Get(backend.stats.dataSize, 0),
          storage_size      |-> Get(backend.stats.storageSize, 0)]

\* db/database.py: DatabaseManager.health_check, with its try and except
DatabaseManager_health_check(backend) ==
    LET body == IF backend.is_mongodb
                THEN Return(mongodb_health_check(backend))
                ELSE Return([status        |-> "healthy",
                             database_type |-> "sql",
                             database_url  |-> backend.database_url])
    IN  IF body.raised
        THEN Return([status |-> "unhealthy", error |-> backend.error])
        ELSE body

get_database_health(backend) == DatabaseManager_health_check(backend)

\* A health endpoint that answers with the status of the database
health_check_of_database(backend) ==
    LET db_health == get_database_health(backend)
    IN  IF db_health.raised THEN [status_code |-> 500, body |-> None]
        ELSE [status_code |-> IF db_health.value.status = "healthy" THEN 200 ELSE 503,
              body |-> Some([status        |-> db_health.value.status,
                             service       |-> "card-collector-web",
                             database      |-> db_health.value,
                             database_type |-> IF backend.is_mongodb THEN "mongodb" ELSE "sql"])]

\* web/app.py: GET /api/health; an exception of the handler is a 500
health_check(backend) ==
    LET db_health == get_database_health(backend)
    IN  IF db_health.raised THEN [status_code |-> 500, body |-> None]
        ELSE [status_code |-> 200,
              body |-> Some([status        |-> "ok",
                             service       |-> "card-collector-web",
                             database      |-> db_health.value,
                             database_type |-> IF backend.is_mongodb THEN "mongodb" ELSE "sql"])]

StatValues == {None} \cup {Some(k) : k \in 0..MaxStat}
NoStats == [collections |-> None, dataSize |-> None, storageSize |-> None]
Backends ==
    [is_mongodb : {TRUE}, fails : {"none"}, error : {""}, database_url : {""},
     stats : [collections : StatValues, dataSize : StatValues, storageSize : StatValues]]
    \cup [is_mongodb : {TRUE}, fails : {"get_mongodb_client", "ping", "get_database", "dbStats"},
          error : {"timed out", "not initialized"}, database_url : {""}, stats : {NoStats}]
    \cup [is_mongodb : {FALSE}, fails : {"none"}, error : {""},
          database_url : {"sqlite", "postgresql"}, stats : {NoStats}]

InitHealth ==
    /\ NoTables
    /\ call \in Backends
    /\ result = None

\* The facade is asked, then the endpoint
Db_health_check ==
    /\ result = None
    /\ result' = Some([facade |-> DatabaseManager_health_check(call), response |-> None])
    /\ UNCHANGED <<cards, instances, audit, auditSeq, now, call>>

Web_health_check ==
    /\ result # None
    /\ Val(result).response = None
    /\ result' = Some([Val(result) EXCEPT !.response = Some(health_check(call))])
    /\ UNCHANGED <<cards, instances, audit, auditSeq, now, call>>

NextHealth == Db_health_check \/ Web_health_check

SpecHealth == InitHealth /\ [][NextHealth]_vars

-----------------------------------------------------------------------------
(* The assign command in its steps.  The handler reads the card and its    *)
(* supply, awaits UserCRUD.get_or_create, then awaits                      *)
(* CardInstanceCRUD.create and AuditLogCRUD.create, each with a commit of  *)
(* its own: at every await another handler can run.  call[p] is where      *)
(* handler p stands and what it read; result.overlap records that some     *)
(* handler read the supply while another stood between its read and its    *)
(* insert.                                                                 *)

Procs == {1, 2}

IdleProc == [pc |-> "idle", user |-> 0, card_id |-> 0, target |-> 0,
             expires_in_minutes |-> None, seen |-> {}, iid |-> 0, res |-> ""]

\* The instances of the card that Card.current_supply counts
ActiveInstances(insts, card_id, t) ==
    {k \in CardInstances(insts, card_id) : is_active(insts[k], t)}

\* The part of assign_card before CardInstanceCRUD.create: the answer of the
\* check that refuses, or "pass"
assign_card_checks(d, t, user, level, card_id, target, expires_in_minutes, noteLen) ==
    IF ~check_permissions(level, TRUE, FALSE, FALSE) THEN "permission"
    ELSE IF expires_in_minutes # None /\ Val(expires_in_minutes) <= 0 THEN "validation"
    ELSE IF noteLen > NOTE_MAX THEN "validation"
    ELSE IF CardCRUD_get(d.cards, card_id) = None THEN "not_found"
    ELSE IF d.cards[card_id].status # APPROVED THEN "not_approved"
    ELSE IF /\ d.cards[card_id].max_supply # None
            /\ current_supply(d.instances, card_id, t) >= Val(d.cards[card_id].max_supply)
         THEN "max_supply"
    ELSE "pass"

\* An insert that looks at the supply again and refuses on a full card
assign_card_create_if_free(d, t, local) ==
    IF /\ d.cards[local.card_id].max_supply # None
       /\ current_supply(d.instances, local.card_id, t) >= Val(d.cards[local.card_id].max_supply)
    THEN Reply(d, "max_supply", 0)
    ELSE LET is == CardInstanceCRUD_create(d.instances, local.card_id, local.target,
                                           local.user, local.expires_in_minutes, t)
         IN  Reply([d EXCEPT !.instances = is], "ok", InstBase + Len(is))

\* The insert of assign_card: CardInstanceCRUD.create with what the handler
\* holds, whatever the table has become since the check
assign_card_create(d, t, local) ==
    LET is == CardInstanceCRUD_create(d.instances, local.card_id, local.target,
                                      local.user, local.expires_in_minutes, t)
    IN  Reply([d EXCEPT !.instances = is], "ok", InstBase + Len(is))

\* The audit entry of assign_card
assign_card_audit(d, t, local) ==
    AuditLogCRUD_create(d, local.user, "card_assigned", "card_instance", local.iid, t)

InitRace ==
    /\ cards = <<>>
    /\ instances = <<>>
    /\ audit = <<>>
    /\ auditSeq = 0
    /\ now = 0
    /\ call = [p \in Procs |-> IdleProc]
    /\ result = [overlap |-> FALSE]

\* A handler that a check refuses ends there and leaves nothing behind
Race_assign_check(p, user, level, card_id, target, expires_in_minutes) ==
    /\ call[p].pc = "idle"
    /\ assign_card_checks(DB, now, user, level, card_id, target, expires_in_minutes,
                          NOTE_MAX) = "pass"
    /\ call' = [call EXCEPT ![p] =
                  [IdleProc EXCEPT !.pc = "create", !.user = user, !.card_id = card_id,
                                   !.target = target,
                                   !.expires_in_minutes = expires_in_minutes,
                                   !.seen = ActiveInstances(instances, card_id, now)]]
    /\ result' = [overlap |-> result.overlap \/ \E q \in Procs \ {p} : call[q].pc = "create"]
    /\ UNCHANGED <<cards, instances, audit, auditSeq, now>>

Race_assign_create(p) ==
    /\ call[p].pc = "create"
    /\ \E r \in {assign_card_create(DB, now, call[p])} :
          /\ Bounded(r.db)
          /\ instances' = r.db.instances
          /\ call' = [call EXCEPT ![p].pc = IF r.res = "ok" THEN "audit" ELSE "done",
                                  ![p].iid = r.ret,
                                  ![p].res = r.res]
    /\ UNCHANGED <<cards, audit, auditSeq, now, result>>

Race_assign_audit(p) ==
    /\ call[p].pc = "audit"
    /\ \E d \in {assign_card_audit(DB, now, call[p])} :
          /\ Bounded(d)
          /\ audit' = d.audit
          /\ auditSeq' = d.auditSeq
    /\ call' = [call EXCEPT ![p].pc = "done"]
    /\ UNCHANGED <<cards, instances, now, result>>

NextRace ==
    \/ \E k \in Callers, n \in NameLens, m \in MaxSupplyInputs, v \in BOOLEAN :
          Bot_create_card(k.id, k.level, n, m, v)
    \/ \E p \in Procs, k \in Callers, c \in CardIds, o \in Users, e \in BotExpiryInputs :
          Race_assign_check(p, k.id, k.level, c, o, e)
    \/ \E p \in Procs : Race_assign_create(p)
    \/ \E p \in Procs : Race_assign_audit(p)
    \/ \E k \in Callers, i \in InstIds : Bot_remove_instance(k.id, k.level, i)
    \/ Sched_process_expired_cards
    \/ \E m \in TimeSteps : Advance(m)

SpecRace == InitRace /\ [][NextRace]_vars

-----------------------------------------------------------------------------
(* The scheduler's run and the remove command in their steps.              *)
(* CardInstanceCRUD.remove awaits its select, then looks at removed_at of  *)
(* the row it read, sets the columns and awaits the commit; the caller     *)
(* then awaits AuditLogCRUD.create.  call.sched and call.mod are where the *)
(* run and the command stand: queue is what the run fetched and has not    *)
(* yet processed, row what the select of remove read, wrote the instances  *)
(* on which the commit of remove set removed_at.                           *)

MaxStepAudit == 4

SchedIdle == [pc |-> "idle", queue |-> <<>>, row |-> None, wrote |-> {}]
ModIdle == [pc |-> "idle", user |-> 0, instance_id |-> 0, row |-> None, wrote |-> {}]

\* CardInstanceCRUD.remove up to its select: the row read, if there is one
CardInstanceCRUD_remove_select(insts, instance_id) ==
    IF InstExists(insts, instance_id) THEN Some(insts[InstIndex(instance_id)]) ELSE None

\* CardInstanceCRUD.remove from its test of the row read to its commit
CardInstanceCRUD_remove_commit(insts, instance_id, row, removed_by_user_id, t) ==
    IF row # None /\ Val(row).removed_at = None
    THEN [instances |-> [insts EXCEPT ![InstIndex(instance_id)].removed_at = Some(t),
                                      ![InstIndex(instance_id)].revoked_by_user_id = removed_by_user_id],
          ret       |-> Some(instance_id)]
    ELSE [instances |-> insts, ret |-> None]

InitExpiry ==
    /\ cards = <<>>
    /\ instances = <<>>
    /\ audit = <<>>
    /\ auditSeq = 0
    /\ now = 0
    /\ call = [sched |-> SchedIdle, mod |-> ModIdle]
    /\ result = None

\* get_expired_instances; a run that fetches nothing returns
Sched_fetch ==
    /\ call.sched.pc = "idle"
    /\ \E expired_instances \in Perms(CardInstanceCRUD_get_expired_instances(instances, now)) :
          /\ expired_instances # <<>>
          /\ call' = [call EXCEPT !.sched.pc = "select", !.sched.queue = expired_instances]
    /\ UNCHANGED <<cards, instances, audit, auditSeq, now, result>>

Sched_remove_select ==
    /\ call.sched.pc = "select"
    /\ call' = [call EXCEPT !.sched.pc = "commit",
                            !.sched.row = CardInstanceCRUD_remove_select(instances,
                                                                        Head(call.sched.queue))]
    /\ UNCHANGED <<cards, instances, audit, auditSeq, now, result>>

Sched_remove_commit ==
    /\ call.sched.pc = "commit"
    /\ \E r \in {CardInstanceCRUD_remove_commit(instances, Head(call.sched.queue),
                                                call.sched.row, None, now)} :
          /\ instances' = r.instances
          /\ call' = [call EXCEPT !.sched.pc = "audit",
                                  !.sched.row = None,
                                  !.sched.wrote = IF r.ret # None
                                                  THEN @ \cup {Head(call.sched.queue)} ELSE @]
    /\ UNCHANGED <<cards, audit, auditSeq, now, result>>

\* what remove returned is not looked at
Sched_audit ==
    /\ call.sched.pc = "audit"
    /\ auditSeq < MaxStepAudit
    /\ \E d \in {AuditLogCRUD_create(DB, 0, "card_instance_expired", "card_instance",
                                     Head(call.sched.queue), now)} :
          /\ audit' = d.audit
          /\ auditSeq' = d.auditSeq
    /\ call' = [call EXCEPT !.sched.queue = Tail(@),
                            !.sched.pc = IF Tail(call.sched.queue) = <<>> THEN "idle"
                                         ELSE "select"]
    /\ UNCHANGED <<cards, instances, now, result>>

\* /card remove: a caller without the permission is answered at once
Mod_remove_select(user, level, instance_id) ==
    /\ call.mod.pc = "idle"
    /\ check_permissions(level, TRUE, FALSE, FALSE)
    /\ call' = [call EXCEPT !.mod.pc = "commit",
                            !.mod.user = user,
                            !.mod.instance_id = instance_id,
                            !.mod.row = CardInstanceCRUD_remove_select(instances, instance_id)]
    /\ UNCHANGED <<cards, instances, audit, auditSeq, now, result>>

\* when remove returns None the command answers "not found or already
\* removed" and ends
Mod_remove_commit ==
    /\ call.mod.pc = "commit"
    /\ \E r \in {CardInstanceCRUD_remove_commit(instances, call.mod.instance_id,
                                                call.mod.row, Some(call.mod.user), now)} :
          /\ instances' = r.instances
          /\ call' = [call EXCEPT !.mod.pc = IF r.ret # None THEN "audit" ELSE "idle",
                                  !.mod.row = None,
                                  !.mod.wrote = IF r.ret # None
                                                THEN @ \cup {call.mod.instance_id} ELSE @]
    /\ UNCHANGED <<cards, audit, auditSeq, now, result>>

Mod_audit ==
    /\ call.mod.pc = "audit"
    /\ auditSeq < MaxStepAudit
    /\ \E d \in {AuditLogCRUD_create(DB, call.mod.user, "card_instance_removed",
                                     "card_instance", call.mod.instance_id, now)} :
          /\ audit' = d.audit
          /\ auditSeq' = d.auditSeq
    /\ call' = [call EXCEPT !.mod.pc = "idle"]
    /\ UNCHANGED <<cards, instances, now, result>>

NextExpiry ==
    \/ \E k \in Callers, n \in NameLens, m \in MaxSupplyInputs, v \in BOOLEAN :
          Bot_create_card(k.id, k.level, n, m, v)
    \/ \E k \in Callers, c \in CardIds, o \in Users, e \in BotExpiryInputs, n \in NoteLens :
          Bot_assign_card(k.id, k.level, c, o, e, n)
    \/ Sched_fetch
    \/ Sched_remove_select
    \/ Sched_remove_commit
    \/ Sched_audit
    \/ \E k \in Callers, i \in InstIds : Mod_remove_select(k.id, k.level, i)
    \/ Mod_remove_commit
    \/ Mod_audit
    \/ \E m \in TimeSteps : Advance(m)

SpecExpiry == InitExpiry /\ [][NextExpiry]_vars

-----------------------------------------------------------------------------
(* /admin bulk-approve on its own: a table of cards, one run of the command *)

MaxBulkCards == 3

\* The rows of a card as the commands leave them: submitted, approved by a
\* moderator, rejected
BulkRows ==
    [status : {SUBMITTED, REJECTED}, max_supply : {None}, approved_by_user_id : {None},
     created_at : {0, 1}, approved_at : {None}]
    \cup [status : {APPROVED}, max_supply : {None}, approved_by_user_id : {Some(2)},
          created_at : {0, 1}, approved_at : {Some(1)}]

\* Tables of up to MaxBulkCards cards; a card created later has no earlier
\* created_at
BulkTables ==
    UNION {{cs \in [1..n -> BulkRows] :
              \A i, j \in 1..n : i < j => cs[i].created_at <= cs[j].created_at} :
           n \in 0..MaxBulkCards}

InitBulk ==
    /\ cards \in BulkTables
    /\ instances = <<>>
    /\ audit = <<>>
    /\ auditSeq = 0
    /\ now = 1
    /\ call \in [user : {2}, level : {MODERATOR, ADMIN}, count : BulkCounts \cup {2}]
    /\ result = None

Admin_bulk_approve_once ==
    /\ result = None
    /\ \E r \in admin_bulk_approve_cards(DB, now, call.user, call.level, call.count) :
          /\ cards' = r.db.cards
          /\ audit' = r.db.audit
          /\ auditSeq' = r.db.auditSeq
          /\ result' = Some(r.res)
    /\ UNCHANGED <<instances, now, call>>

NextBulk == Admin_bulk_approve_once

SpecBulk == InitBulk /\ [][NextBulk]_vars

-----------------------------------------------------------------------------
(* setup_guild_permissions on its own: a table of guild configurations,    *)
(* one call.  The table maps a guild id to its row, None when the guild    *)
(* has none; a list column is None (NULL) or a list of ids.  fails names   *)
(* the await that raises, if one does.                                     *)

SetupGuildIds == {1, 2}

\* GuildConfig(guild_id=guild_id): the lists are NULL, the flags have their
\* defaults
GuildConfig_new(guild_id) ==
    [guild_id           |-> guild_id,
     admin_role_ids     |-> None,
     mod_role_ids       |-> None,
     admin_user_ids     |-> None,
     mod_user_ids       |-> None,
     auto_approve_cards |-> FALSE]

GuildConfigCRUD_get_or_create(configs, guild_id) ==
    IF configs[guild_id] = None
    THEN [configs EXCEPT ![guild_id] = Some(GuildConfig_new(guild_id))]
    ELSE configs

\* A setup that stores every argument, given or not
setup_guild_permissions_of_all(configs, guild_id, admin_role_ids, mod_role_ids, admin_user_ids, mod_user_ids, fails) ==
    IF fails = "get_or_create" THEN [configs |-> configs, ret |-> FALSE]
    ELSE LET created == GuildConfigCRUD_get_or_create(configs, guild_id)
             guild_config == [Val(created[guild_id]) EXCEPT
                                 !.admin_role_ids = IF admin_role_ids # None THEN Some(Val(admin_role_ids)) ELSE None,
                                 !.mod_role_ids   = IF mod_role_ids # None THEN Some(Val(mod_role_ids)) ELSE None,
                                 !.admin_user_ids = IF admin_user_ids # None THEN Some(Val(admin_user_ids)) ELSE None,
                                 !.mod_user_ids   = IF mod_user_ids # None THEN Some(Val(mod_user_ids)) ELSE None]
         IN  IF fails = "commit" THEN [configs |-> created, ret |-> FALSE]
             ELSE [configs |-> [created EXCEPT ![guild_id] = Some(guild_config)], ret |-> TRUE]

\* bot/permissions.py: setup_guild_permissions.  get_or_create commits the
\* row it creates; the assignments are committed at the end.
setup_guild_permissions(configs, guild_id, admin_role_ids, mod_role_ids, admin_user_ids, mod_user_ids, fails) ==
    IF fails = "get_or_create" THEN [configs |-> configs, ret |-> FALSE]
    ELSE LET created == GuildConfigCRUD_get_or_create(configs, guild_id)
             guild_config == [Val(created[guild_id]) EXCEPT
                                 !.admin_role_ids = IF admin_role_ids # None THEN Some(Val(admin_role_ids)) ELSE @,
                                 !.mod_role_ids   = IF mod_role_ids # None THEN Some(Val(mod_role_ids)) ELSE @,
                                 !.admin_user_ids = IF admin_user_ids # None THEN Some(Val(admin_user_ids)) ELSE @,
                                 !.mod_user_ids   = IF mod_user_ids # None THEN Some(Val(mod_user_ids)) ELSE @]
         IN  IF fails = "commit" THEN [configs |-> created, ret |-> FALSE]
             ELSE [configs |-> [created EXCEPT ![guild_id] = Some(guild_config)], ret |-> TRUE]

\* The lists stored and the lists passed: absent, empty, of one id
StoredLists == {None, Some(<<1>>)}
ListArguments == {None, Some(<<>>), Some(<<2>>)}

StoredConfigs(guild_id) ==
    {None} \cup {Some(c) : c \in [guild_id : {guild_id}, admin_role_ids : StoredLists,
                                  mod_role_ids : StoredLists, admin_user_ids : StoredLists,
                                  mod_user_ids : StoredLists, auto_approve_cards : BOOLEAN]}

\* The guild of the call has any row; the other guild has none, a new one,
\* or one with its lists set
SetupTables ==
    {configs \in [SetupGuildIds -> UNION {StoredConfigs(g) : g \in SetupGuildIds}] :
        /\ configs[1] \in StoredConfigs(1)
        /\ configs[2] \in {None, Some(GuildConfig_new(2)),
                           Some([GuildConfig_new(2) EXCEPT !.admin_role_ids = Some(<<1>>),
                                                           !.mod_user_ids = Some(<<1>>),
                                                           !.auto_approve_cards = TRUE])}}

InitSetup ==
    /\ NoTables
    /\ call \in [configs : SetupTables, guild_id : {1},
                 admin_role_ids : ListArguments, mod_role_ids : ListArguments,
                 admin_user_ids : ListArguments, mod_user_ids : ListArguments,
                 fails : {"none", "get_or_create", "commit"}]
    /\ result = None

Bot_setup_guild_permissions ==
    /\ result = None
    /\ result' = Some(setup_guild_permissions(call.configs, call.guild_id,
                                              call.admin_role_ids, call.mod_role_ids,
                                              call.admin_user_ids, call.mod_user_ids,
                                              call.fails))
    /\ UNCHANGED <<cards, instances, audit, auditSeq, now, call>>

NextSetup == Bot_setup_guild_permissions

SpecSetup == InitSetup /\ [][NextSetup]_vars

-----------------------------------------------------------------------------
(* PaginationView on its own: a view over a number of embeds and the       *)
(* presses of its buttons.  call is the view (its fields, its buttons and  *)
(* whether its message is still there), result the last press: the button  *)
(* and the page it was pressed on.                                         *)

MaxViewPages == 8

ViewButtons == {"first_page", "previous_page", "next_page", "last_page", "delete_message"}

\* PaginationView.__init__: clear_items() removes every button
PaginationView(total_pages) ==
    [current_page |-> 0,
     total_pages  |-> total_pages,
     items        |-> IF total_pages <= 1 THEN {} ELSE ViewButtons,
     message      |-> TRUE]

first_page(self) == [self EXCEPT !.current_page = 0]

\* A previous page that stops at the first page
previous_page_to_first(self) ==
    [self EXCEPT !.current_page = IF self.current_page = 0 THEN 0 ELSE self.current_page - 1]

\* Python's % with a positive modulus gives a result in 0..total_pages-1
previous_page(self) ==
    [self EXCEPT !.current_page = (self.current_page - 1) % self.total_pages]

next_page(self) ==
    [self EXCEPT !.current_page = (self.current_page + 1) % self.total_pages]

last_page(self) == [self EXCEPT !.current_page = self.total_pages - 1]

delete_message(self) == [self EXCEPT !.message = FALSE]

InitView ==
    /\ NoTables
    /\ call \in {PaginationView(n) : n \in 0..MaxViewPages}
    /\ result = None

\* A button can be pressed while it is on the view and the message is there
Press(button, self) ==
    /\ call.message
    /\ button \in call.items
    /\ call' = self
    /\ result' = Some([button |-> button, page |-> call.current_page])
    /\ UNCHANGED <<cards, instances, audit, auditSeq, now>>

View_first_page ==
    /\ "first_page" \in call.items
    /\ \E self \in {first_page(call)} : Press("first_page", self)

View_previous_page ==
    /\ "previous_page" \in call.items
    /\ \E self \in {previous_page(call)} : Press("previous_page", self)

View_next_page ==
    /\ "next_page" \in call.items
    /\ \E self \in {next_page(call)} : Press("next_page", self)

View_last_page ==
    /\ "last_page" \in call.items
    /\ \E self \in {last_page(call)} : Press("last_page", self)

View_delete_message ==
    /\ "delete_message" \in call.items
    /\ \E self \in {delete_message(call)} : Press("delete_message", self)


NextView ==
    \/ View_first_page
    \/ View_previous_page
    \/ View_next_page
    \/ View_last_page
    \/ View_delete_message

SpecView == InitView /\ [][NextView]_vars

-----------------------------------------------------------------------------
(* start.py: main in its stages.  call is what the run finds: the          *)
(* environment variables that are set, whether a .env file is there, and   *)
(* what each of initialize_database, start_discord_bot, start_web_server   *)
(* and start_background_schedulers returns and whether health_check meets  *)
(* an exception.  result is where main stands: pc, the stages run so far,  *)
(* the services started and the value returned.                            *)

RequiredEnvVars == {"DISCORD_TOKEN", "JWT_SECRET_KEY"}

\* check_environment: the variables are looked for before any .env file is
\* loaded
check_environment(env) ==
    LET missing_vars == {var \in RequiredEnvVars : var \notin env.vars}
    IN  missing_vars = {}

\* What main does with the value a stage returns: the next stage, or
\* "return" with the value main returns
Continue(pc) == [pc |-> pc, code |-> None]
ReturnCode(code) == [pc |-> "return", code |-> Some(code)]

after_check_environment(ok) == IF ok THEN Continue("database") ELSE ReturnCode(1)
after_initialize_database(ok) == IF ok THEN Continue("bot") ELSE ReturnCode(1)
after_start_discord_bot(ok) == IF ok THEN Continue("web") ELSE ReturnCode(1)
after_start_web_server(ok) == IF ok THEN Continue("scheduler") ELSE ReturnCode(1)

\* A main that gives up when the schedulers do not start
after_start_background_schedulers_or_return(ok) ==
    IF ok THEN Continue("health") ELSE ReturnCode(1)

\* a failure is logged as a warning
after_start_background_schedulers(ok) == Continue("health")

\* health_check catches what it meets
after_health_check(ok) == Continue("running")

Runs ==
    [env : [vars : SUBSET RequiredEnvVars, dotenv : BOOLEAN],
     database : BOOLEAN, bot : BOOLEAN, web : BOOLEAN, scheduler : BOOLEAN, health : BOOLEAN]

InitStart ==
    /\ NoTables
    /\ call \in Runs
    /\ result = [pc |-> "environment", stages |-> <<>>, services |-> {}, code |-> None]

\* A stage is run: it is noted, the services it started are there, and main
\* goes where the value returned sends it
Stage(name, started, next) ==
    /\ result.pc = name
    /\ result' = [pc       |-> next.pc,
                  stages   |-> Append(result.stages, name),
                  services |-> result.services \cup started,
                  code     |-> next.code]
    /\ UNCHANGED <<cards, instances, audit, auditSeq, now, call>>

Main_check_environment ==
    /\ result.pc = "environment"
    /\ \E next \in {after_check_environment(check_environment(call.env))} :
       Stage("environment", {}, next)

Main_initialize_database ==
    /\ result.pc = "database"
    /\ \E next \in {after_initialize_database(call.database)} : Stage("database", {}, next)

Main_start_discord_bot ==
    /\ result.pc = "bot"
    /\ \E next \in {after_start_discord_bot(call.bot)} :
       Stage("bot", IF call.bot THEN {"discord_bot"} ELSE {}, next)

Main_start_web_server ==
    /\ result.pc = "web"
    /\ \E next \in {after_start_web_server(call.web)} :
       Stage("web", IF call.web THEN {"web_server"} ELSE {}, next)

Main_start_background_schedulers ==
    /\ result.pc = "scheduler"
    /\ \E next \in {after_start_background_schedulers(call.scheduler)} :
       Stage("scheduler", IF call.scheduler THEN {"schedulers"} ELSE {}, next)

Main_health_check ==
    /\ result.pc = "health"
    /\ \E next \in {after_health_check(call.health)} : Stage("health", {}, next)

\* shutdown_event is set: main returns 0
Main_shutdown ==
    /\ result.pc = "running"
    /\ result' = [result EXCEPT !.pc = "return", !.code = Some(0)]
    /\ UNCHANGED <<cards, instances, audit, auditSeq, now, call>>

NextStart ==
    \/ Main_check_environment
    \/ Main_initialize_database
    \/ Main_start_discord_bot
    \/ Main_start_web_server
    \/ Main_start_background_schedulers
    \/ Main_health_check
    \/ Main_shutdown

SpecStart == InitStart /\ [][NextStart]_vars

-----------------------------------------------------------------------------
(* The handlers that approve, reject, assign and remove, in their awaits:  *)
(* the checks, the mutation (a CRUD call that commits), the audit entry    *)
(* (AuditLogCRUD.create, that commits), the response.  call is the         *)
(* handler: what it was called with and what it holds; result is what the  *)
(* caller was sent.                                                        *)

OrderOps == {"approve", "reject", "assign", "remove", "bulk_approve"}

\* The action each handler logs
handler_action(via, op) ==
    CASE op = "approve" -> IF via = "api" THEN "card_approved_via_api" ELSE "card_approved"
      [] op = "reject"  -> IF via = "api" THEN "card_rejected_via_api" ELSE "card_rejected"
      [] op = "assign"  -> IF via = "api" THEN "card_assigned_via_api" ELSE "card_assigned"
      [] op = "remove"  -> IF via = "api" THEN "card_instance_removed_via_api"
                                          ELSE "card_instance_removed"
      [] OTHER          -> "card_bulk_approved"

handler_target_type(op) == IF op \in {"assign", "remove"} THEN "card_instance" ELSE "card"

\* The handler at rest
OrderIdle ==
    [pc |-> "idle", via |-> "bot", op |-> "approve", user |-> 0, level |-> USER,
     id |-> 0, target |-> 0, expires_in_minutes |-> None, pending |-> <<>>,
     held |-> None, mutated |-> {}, startSeq |-> 0]

\* What comes before the mutation: the answer of the check that refuses, or
\* "pass".  The API's assign has no check of expires_in_minutes or notes.
handler_checks(d, t, local, noteLen, count) ==
    IF local.op = "bulk_approve"
    THEN IF count <= 0 \/ count > BULK_MAX THEN "validation"
         ELSE IF ~check_permissions(local.level, FALSE, TRUE, FALSE) THEN "permission"
         ELSE "pass"
    ELSE IF local.via = "api"
    THEN IF ~require_permissions(current_user(local.level), TRUE, FALSE, FALSE)
         THEN "permission"
         ELSE IF local.op # "assign" THEN "pass"
         ELSE IF CardCRUD_get(d.cards, local.id) = None THEN "not_found"
         ELSE IF d.cards[local.id].status # APPROVED THEN "not_approved"
         ELSE IF /\ d.cards[local.id].max_supply # None
                 /\ current_supply(d.instances, local.id, t) >= Val(d.cards[local.id].max_supply)
              THEN "max_supply"
         ELSE "pass"
    ELSE IF local.op = "assign"
    THEN assign_card_checks(d, t, local.user, local.level, local.id, local.target,
                            local.expires_in_minutes, noteLen)
    ELSE IF ~check_permissions(local.level, TRUE, FALSE, FALSE) THEN "permission"
    ELSE "pass"

\* The cards a handler is to work on: the one it was given, or for the bulk
\* approve what CardCRUD.get_all returns (one of its orders)
handler_pending(d, local, count) ==
    IF local.op = "bulk_approve"
    THEN CardCRUD_get_all(d.cards, Some(SUBMITTED), count, 0)
    ELSE {<<local.id>>}

\* The mutation: the CRUD call of the handler on the first pending id
handler_mutation(d, t, local) ==
    LET id == Head(local.pending)
    IN  CASE local.op \in {"approve", "bulk_approve"} ->
                LET r == CardCRUD_approve(d.cards, id, local.user, t)
                IN  Reply([d EXCEPT !.cards = r.cards], "ok", r.ret)
          [] local.op = "reject" ->
                LET r == CardCRUD_reject(d.cards, id)
                IN  Reply([d EXCEPT !.cards = r.cards], "ok", r.ret)
          [] local.op = "assign" ->
                LET is == CardInstanceCRUD_create(d.instances, id, local.target, local.user,
                                                  local.expires_in_minutes, t)
                IN  Reply([d EXCEPT !.instances = is], "ok", Some(InstBase + Len(is)))
          [] OTHER ->
                LET r == CardInstanceCRUD_remove(d.instances, id, Some(local.user), t)
                IN  Reply([d EXCEPT !.instances = r.instances], "ok", r.ret)

\* A handler that answers as soon as the mutation is committed
after_mutation_respond(local, ret) ==
    IF ret # None THEN "respond"
    ELSE IF local.op # "bulk_approve" THEN "refused"
    ELSE IF Len(local.pending) > 1 THEN "mutate"
    ELSE "respond"

\* Where the handler goes with what the CRUD call returned: to the audit
\* entry; with nothing returned, to the error message (the bulk approve: to
\* the next card)
after_mutation(local, ret) ==
    IF ret # None THEN "audit"
    ELSE IF local.op # "bulk_approve" THEN "refused"
    ELSE IF Len(local.pending) > 1 THEN "mutate"
    ELSE "respond"

\* The audit entry, for what the mutation returned
handler_audit(d, t, local) ==
    AuditLogCRUD_create(d, local.user, handler_action(local.via, local.op),
                        handler_target_type(local.op), Val(local.held), t)

\* After the audit entry: the bulk approve goes to its next card
after_audit(local) ==
    IF local.op = "bulk_approve" /\ local.pending # <<>> THEN "mutate" ELSE "respond"

\* The response at the end: the bulk approve that approved nothing says so
handler_response(local) ==
    IF local.op = "bulk_approve" /\ local.mutated = {} THEN "error" ELSE "success"

\* What the handlers are called with: a card id, an instance id, or the
\* recipient, expiry and note of an assign, or the count of a bulk approve
OrderCall(op, id, target, expires_in_minutes, noteLen, count) ==
    [op |-> op, id |-> id, target |-> target, expires_in_minutes |-> expires_in_minutes,
     noteLen |-> noteLen, count |-> count]

OrderCalls(via) ==
    {OrderCall(op, id, 0, None, NOTE_MAX, 1) : op \in {"approve", "reject"}, id \in CardIds}
    \cup {OrderCall("remove", id, 0, None, NOTE_MAX, 1) : id \in InstIds}
    \cup {OrderCall("assign", id, o, e, n, 1) :
             id \in CardIds, o \in Users,
             e \in IF via = "api" THEN ExpiryInputs ELSE BotExpiryInputs,
             n \in IF via = "api" THEN {NOTE_MAX} ELSE NoteLens}
    \cup IF via = "api" THEN {}
         ELSE {OrderCall("bulk_approve", 0, 0, None, NOTE_MAX, count) : count \in BulkCounts}

InitOrder ==
    /\ NoTables
    /\ call = OrderIdle
    /\ result = [response |-> "none"]

\* The handler is called and runs its checks; the bulk approve fetches its
\* cards.  A refusal is answered at once, and the handler holds nothing.
Order_begin(via, user, level, op, id, target, expires_in_minutes, noteLen, count) ==
    /\ call.pc \in {"idle", "done"}
    /\ LET local == [OrderIdle EXCEPT !.via = via, !.op = op, !.user = user,
                                      !.level = level, !.id = id, !.target = target,
                                      !.expires_in_minutes = expires_in_minutes,
                                      !.startSeq = auditSeq]
           checks == handler_checks(DB, now, local, noteLen, count)
       IN  IF checks # "pass"
           THEN /\ call' = [OrderIdle EXCEPT !.pc = "done", !.startSeq = auditSeq]
                /\ result' = [response |-> "error"]
           ELSE \E pending \in handler_pending(DB, local, count) :
                   IF pending = <<>>
                   THEN /\ call' = [OrderIdle EXCEPT !.pc = "done", !.startSeq = auditSeq]
                        /\ result' = [response |-> "error"]
                   ELSE /\ call' = [local EXCEPT !.pc = "mutate", !.pending = pending]
                        /\ result' = [response |-> "none"]
    /\ UNCHANGED <<cards, instances, audit, auditSeq, now>>

\* The handler has returned: of what it held, what it was, what it mutated
\* and the audit count it started from are kept for the record
Returned(local) ==
    [OrderIdle EXCEPT !.pc = "done", !.via = local.via, !.op = local.op,
                      !.user = local.user, !.mutated = local.mutated,
                      !.startSeq = local.startSeq]

Order_mutate ==
    /\ call.pc = "mutate"
    /\ \E r \in {handler_mutation(DB, now, call)} :
          /\ Bounded(r.db)
          /\ cards' = r.db.cards
          /\ instances' = r.db.instances
          /\ \E pc \in {after_mutation(call, r.ret)} :
                /\ call' = IF pc = "refused" THEN Returned(call)
                           ELSE [call EXCEPT !.pc = pc,
                                             !.pending = Tail(@),
                                             !.held = r.ret,
                                             !.mutated = IF r.ret = None THEN @
                                                         ELSE @ \cup {Val(r.ret)}]
                /\ result' = IF pc = "refused" THEN [response |-> "error"] ELSE result
    /\ UNCHANGED <<audit, auditSeq, now>>

\* AuditLogCRUD.create returns, or raises and the handler answers with its
\* error message (the API: 500)
Order_audit(raises) ==
    /\ call.pc = "audit"
    /\ IF raises
       THEN /\ call' = Returned(call)
            /\ result' = [response |-> "error"]
            /\ UNCHANGED <<audit, auditSeq>>
       ELSE \E d \in {handler_audit(DB, now, call)} :
               /\ d.auditSeq <= MaxStepAudit
               /\ audit' = d.audit
               /\ auditSeq' = d.auditSeq
               /\ call' = [call EXCEPT !.pc = after_audit(call)]
               /\ UNCHANGED result
    /\ UNCHANGED <<cards, instances, now>>

\* The response; the bot notifies a user first, and what that raises other
\* than discord.Forbidden ends in the error message
Order_respond(raises) ==
    /\ call.pc = "respond"
    /\ raises => call.via = "bot" /\ call.op # "bulk_approve"
    /\ call' = Returned(call)
    /\ result' = [response |-> IF raises THEN "error" ELSE handler_response(call)]
    /\ UNCHANGED <<cards, instances, audit, auditSeq, now>>

NextOrder ==
    \/ \E k \in Callers : Bot_submit_card(k.id, NAME_MAX, TRUE)
    \/ \E k \in Callers, m \in SupplyValues : Bot_create_card(k.id, k.level, NAME_MAX, m, TRUE)
    \/ \E k \in AdminCallers, c \in OrderCalls("bot") :
          Order_begin("bot", k.id, k.level, c.op, c.id, c.target, c.expires_in_minutes,
                      c.noteLen, c.count)
    \/ \E k \in WebCallers, c \in OrderCalls("api") :
          Order_begin("api", k.id, k.level, c.op, c.id, c.target, c.expires_in_minutes,
                      c.noteLen, c.count)
    \/ Order_mutate
    \/ \E raises \in BOOLEAN : Order_audit(raises)
    \/ \E raises \in BOOLEAN : Order_respond(raises)

SpecOrder == InitOrder /\ [][NextOrder]_vars

-----------------------------------------------------------------------------
(* Further properties *)

\* The level the fixed order of rules gives: the level of the first rule
\* that matches, USER when none does
C11_Level(i, g) ==
    LET native(p) == i.member # None /\ Val(i.member)[p]
        roles     == IF i.member # None THEN Val(i.member).roles ELSE {}
        rules     == << <<i.guild = None,                        USER>>,
                        <<i.user_id = i.app_owner_id,            OWNER>>,
                        <<i.guild # None /\ Val(i.guild).owner_id = Some(i.user_id), ADMIN>>,
                        <<native("administrator"),               ADMIN>>,
                        <<g.admin_role_ids \cap roles # {},      ADMIN>>,
                        <<g.mod_role_ids \cap roles # {},        MODERATOR>>,
                        <<i.user_id \in g.admin_user_ids,        ADMIN>>,
                        <<i.user_id \in g.mod_user_ids,          MODERATOR>>,
                        <<native("manage_messages"),             MODERATOR>>,
                        <<native("manage_roles"),                ADMIN>>,
                        <<TRUE,                                  USER>> >>
        first     == CHOOSE k \in DOMAIN rules :
                        rules[k][1] /\ \A j \in 1..(k - 1) : ~rules[j][1]
    IN  rules[first][2]

\* C11: get_user_permission_level returns the level of the first matching
\* rule in the order: no guild -> USER; application owner -> OWNER; guild
\* owner -> ADMIN; native administrator -> ADMIN; admin role -> ADMIN;
\* moderator role -> MODERATOR; admin user list -> ADMIN; moderator user
\* list -> MODERATOR; manage-messages -> MODERATOR; manage-roles -> ADMIN;
\* otherwise USER.
C11_FirstMatchOrder ==
    result # None
       => Val(result) = Return(C11_Level(call.interaction, call.guild_config))

\* A member in no list who holds manage-messages and manage-roles, resolved
\* to MODERATOR
C11_Witness ==
    /\ result = Some(Return(MODERATOR))
    /\ call.interaction.guild # None
    /\ call.interaction.member # None
    /\ Val(call.interaction.member).manage_messages
    /\ Val(call.interaction.member).manage_roles
    /\ ~Val(call.interaction.member).administrator
    /\ call.guild_config.admin_user_ids = {}
    /\ call.guild_config.mod_user_ids = {}
    /\ call.guild_config.admin_role_ids = {}
    /\ call.guild_config.mod_role_ids = {}

\* C12: MongoCardCRUD.approve and MongoCardCRUD.reject give, on every card
\* state and card id, the result and the next state that CardCRUD.approve
\* and CardCRUD.reject give; on a card that is not SUBMITTED both return
\* None and leave status, approver and approved_at as they are.
C12_MongoApproveRejectAsRelational ==
    \A c \in CardIds, u \in Users :
       /\ MongoCardCRUD_approve(cards, c, u, now) = CardCRUD_approve(cards, c, u, now)
       /\ MongoCardCRUD_reject(cards, c) = CardCRUD_reject(cards, c)

\* C13: MongoCardInstanceCRUD.remove_instance gives, on every instance
\* state and instance id, the result and the next state that
\* CardInstanceCRUD.remove gives; on a removed instance both return None and
\* leave removed_at and revoked_by_user_id as they are.
C13_MongoRemoveAsRelational ==
    \A i \in InstIds, u \in Users :
       MongoCardInstanceCRUD_remove_instance(instances, i, Some(u), now)
          = CardInstanceCRUD_remove(instances, i, Some(u), now)

\* C14: on every path that creates or updates a card, for every tag input,
\* the stored tag list has at most 10 entries, each trimmed, not empty and
\* at most 50 characters long, and the entries are the first (up to 10)
\* non-blank input tags, in input order.
C14_TagsNormalised ==
    result # None
       => LET out  == Val(result).tag_list
              kept == SelectSeq(call.tags, NotBlank)
          IN  /\ Len(out) <= TAGS_MAX
              /\ Len(out) = Min(TAGS_MAX, Len(kept))
              /\ \A k \in DOMAIN out :
                    /\ out[k] # <<>>
                    /\ strip(out[k]) = out[k]
                    /\ Len(out[k]) <= TAG_LEN
                    /\ out[k] = SubSeq(strip(kept[k]), 1, Len(out[k]))

\* The number of cards of the table that match the status filter of the call
C15_Matching ==
    Cardinality({c \in DOMAIN cards :
                   call.status = None \/ cards[c].status = Val(call.status)})

\* C15: GET /cards with limit L and offset O over M matching cards returns
\* min(L, max(M - O, 0)) items, and has_more is true iff M - O > L.
C15_PageSizeAndHasMore ==
    result # None
       => LET left == IF C15_Matching > call.offset THEN C15_Matching - call.offset ELSE 0
          IN  /\ Len(Val(result).items) = Min(call.limit, left)
              /\ Val(result).has_more <=> (C15_Matching - call.offset > call.limit)

\* A full page with one more card matching than the limit: has_more is true
C15_Witness ==
    /\ result # None
    /\ call.limit = MaxLimit
    /\ call.status # None
    /\ C15_Matching - call.offset = MaxLimit + 1
    /\ Len(Val(result).items) = MaxLimit
    /\ Val(result).has_more

\* The entries of the audit log older than `days` days at time now
C16_Older(days) ==
    {k \in DOMAIN audit : now - audit[k].created_at > days * MINUTES_PER_DAY}

\* C16: cleanup_old_logs(days) deletes exactly the audit entries whose
\* creation time is older than now - days, returns their count and leaves
\* every newer entry as it is, in its place.
C16_CleanupDeletesOlderOnly ==
    LET r    == AuditLogCRUD_cleanup_old_logs(audit, RETENTION_DAYS, now)
        kept == SelectSeq([k \in DOMAIN audit |-> k],
                          LAMBDA k : k \notin C16_Older(RETENTION_DAYS))
    IN  /\ r.count = Cardinality(C16_Older(RETENTION_DAYS))
        /\ r.audit = [j \in DOMAIN kept |-> audit[kept[j]]]
        /\ cleanup_audit_logs(DB, now).db.audit = r.audit

\* A log with an entry older than the retention and an entry exactly as
\* old as the retention: the cleanup deletes the first and keeps the second
C16_Witness ==
    /\ Len(audit) = 2
    /\ now - audit[1].created_at = RETENTION_MINUTES + 1
    /\ now - audit[2].created_at = RETENTION_MINUTES
    /\ AuditLogCRUD_cleanup_old_logs(audit, RETENTION_DAYS, now).count = 1
    /\ AuditLogCRUD_cleanup_old_logs(audit, RETENTION_DAYS, now).audit = <<audit[2]>>

\* C17: get_card_leaderboard(limit, active_only = true) returns at most
\* limit (owner, count) pairs, count being the number of active instances
\* of the owner, sorted by count in non-increasing order, and a query
\* repeated on the same data returns the pairs in the same order.
C17_LeaderboardSortedAndStable ==
    \A limit \in 0..MaxInstances :
       LET answers == get_leaderboard(DB, now, limit)
       IN  /\ \A a \in answers :
                 /\ Len(a) <= limit
                 /\ \A k \in DOMAIN a :
                       a[k].card_count
                          = Cardinality({i \in DOMAIN instances :
                                           /\ instances[i].owner_user_id = a[k].user_id
                                           /\ instances[i].removed_at = None
                                           /\ \/ instances[i].expires_at = None
                                              \/ Val(instances[i].expires_at) > now})
                 /\ \A j, k \in DOMAIN a : j < k => a[j].card_count >= a[k].card_count
           /\ \A a, b \in answers : a = b

\* The reply r is the 403 of the permission guard, and nothing was written
C18_Refused(r) == r.res = "permission" /\ r.db = DB

\* C18: a request with a valid session token and no X-Guild-ID header is
\* resolved to level USER, with is_moderator, is_admin and is_owner false,
\* whatever the lists of the guild configuration hold; every endpoint behind
\* require_permissions(moderator / admin / owner) answers it 403 and writes
\* nothing.
C18_NoGuildHeaderIsUser ==
    \A cu \in HeaderlessUsers :
       /\ cu.permission_level = USER
       /\ ~cu.is_moderator /\ ~cu.is_admin /\ ~cu.is_owner
       /\ ~require_permissions(cu, TRUE, FALSE, FALSE)
       /\ ~require_permissions(cu, FALSE, TRUE, FALSE)
       /\ ~require_permissions(cu, FALSE, FALSE, TRUE)
       /\ \A c \in CardIds :
             /\ C18_Refused(api_approve_card(DB, now, cu.discord_id, cu.permission_level, c))
             /\ C18_Refused(api_reject_card(DB, now, cu.discord_id, cu.permission_level, c))
             /\ \A u \in UpdateData :
                   C18_Refused(api_update_card(DB, now, cu.discord_id, cu.permission_level, c, u))
             /\ \A o \in Users, e \in ExpiryInputs :
                   C18_Refused(api_assign_card_instance(DB, now, cu.discord_id,
                                                        cu.permission_level, c, o, e))
       /\ \A i \in InstIds :
             C18_Refused(api_remove_card_instance(DB, now, cu.discord_id, cu.permission_level, i))
       /\ \A a \in BOOLEAN, m \in SupplyValues :
             C18_Refused(api_create_card(DB, now, cu.discord_id, cu.permission_level, a, m))

\* A card with an active instance, which a request without the header can
\* neither change nor remove
C18_Witness ==
    /\ HeaderlessUsers # {}
    /\ cards # <<>>
    /\ \E i \in DOMAIN instances : is_active(instances[i], now)
    /\ \A cu \in HeaderlessUsers :
          /\ \A c \in DOMAIN cards, u \in UpdateData :
                C18_Refused(api_update_card(DB, now, cu.discord_id, cu.permission_level, c, u))
          /\ \A i \in DOMAIN instances :
                C18_Refused(api_remove_card_instance(DB, now, cu.discord_id,
                                                     cu.permission_level, InstBase + i))

\* C19: with the X-Guild-ID header naming guild G, get_current_user resolves
\* the level as the bot does against the configuration of G: a user in
\* admin_user_ids of G gets is_admin, a user in mod_user_ids of G gets
\* is_moderator, and the endpoints guarded for moderators let them in.
C19_GuildHeaderResolvesLists ==
    (result # None /\ ~Val(result).raised /\ call.request.guild_id # None)
       => LET cu == Val(result).value
          IN  /\ cu.discord_id \in call.guild_config.admin_user_ids
                 => cu.is_admin /\ require_permissions(cu, TRUE, FALSE, FALSE)
              /\ cu.discord_id \in call.guild_config.mod_user_ids
                 => cu.is_moderator /\ require_permissions(cu, TRUE, FALSE, FALSE)

\* C20: a validation failure is refused before anything is written, by the
\* bot and by the API: an assign with expires_in_minutes <= 0 or a note of
\* more than 200 characters answers an error (POST /instances: 400), adds
\* no instance and no audit entry; a bulk approve with a count outside
\* 1..10 approves no card.
C20_ValidationBeforeMutation ==
    /\ \A k \in Callers, c \in CardIds, o \in Users, e \in ExpiryInputs, n \in NoteLens :
          ((e # None /\ Val(e) <= 0) \/ n > NOTE_MAX)
             => LET r == commands_assign_card(DB, now, k.id, k.level, c, o, e, n)
                IN  r.res # "ok" /\ r.db = DB
    /\ \A k \in WebCallers, c \in CardIds, o \in Users, e \in ExpiryInputs :
          (e # None /\ Val(e) <= 0)
             => LET r == api_assign_card_instance(DB, now, k.id, k.level, c, o, e)
                IN  r.res \in {"validation", "not_approved", "max_supply"} /\ r.db = DB
    /\ \A k \in AdminCallers, n \in BulkCounts :
          (n < 1 \/ n > BULK_MAX)
             => \A r \in admin_bulk_approve_cards(DB, now, k.id, k.level, n) : r.db = DB

\* C21: a card instance is shown only to its owner or to a caller of level
\* MODERATOR or higher.  /card info and GET /instances/{id} answer an existing
\* instance exactly when the caller owns it or is a moderator and refuse
\* otherwise; GET /instances never lists the collection of a user other than
\* the caller for a caller below MODERATOR and refuses such a request; a card
\* is shown to every caller.  None of these changes the database.
C21_InstanceDisclosure ==
    /\ \A i \in InstIds : InstExists(instances, i) =>
          LET owner == instances[InstIndex(i)].owner_user_id
          IN  /\ \A k \in Callers :
                    LET r == commands_card_info(DB, now, k.id, k.level, i)
                    IN  /\ r.db = DB
                        /\ IF owner = k.id \/ k.level >= MODERATOR
                           THEN r.res = "ok" /\ r.ret = i
                           ELSE r.res = "permission"
              /\ \A k \in WebCallers :
                    LET r == api_get_card_instance(DB, now, k.id, k.level, i)
                    IN  /\ r.db = DB
                        /\ IF owner = k.id \/ k.level >= MODERATOR
                           THEN r.res = "ok" /\ r.ret = i
                           ELSE r.res = "permission"
    /\ \A k \in WebCallers, u \in UserIdParams :
          LET r == api_get_card_instances(DB, now, k.id, k.level, u)
          IN  /\ r.db = DB
              /\ (r.res = "ok" /\ r.ret # k.id) => k.level >= MODERATOR
              /\ (u # None /\ Val(u) # k.id /\ k.level < MODERATOR) => r.res = "permission"
    /\ \A c \in DOMAIN cards :
          /\ \A k \in Callers : commands_card_info(DB, now, k.id, k.level, c).res = "ok"
          /\ api_get_card(DB, now, c).res = "ok"

\* An instance of user 2 and one of user 1 exist: user 1, of level USER, is
\* refused the first and shown the second, by the bot and by the API
C21_Witness ==
    /\ Len(instances) = 2
    /\ instances[1].owner_user_id = 2
    /\ instances[2].owner_user_id = 1
    /\ commands_card_info(DB, now, 1, USER, InstBase + 1).res = "permission"
    /\ commands_card_info(DB, now, 1, USER, InstBase + 2).res = "ok"
    /\ commands_card_info(DB, now, 2, MODERATOR, InstBase + 2).res = "ok"
    /\ \E k \in WebCallers :
          /\ k.id = 1
          /\ api_get_card_instance(DB, now, 1, k.level, InstBase + 1).res = "permission"
          /\ api_get_card_instance(DB, now, 1, k.level, InstBase + 2).res = "ok"
          /\ api_get_card_instances(DB, now, 1, k.level, Some(2)).res = "permission"

C23_SupplyRace ==
    /\ \A p \in Procs : call[p].pc \in {"audit", "done"} =>
          /\ call[p].res = "ok"
          /\ InstExists(instances, call[p].iid)
          /\ instances[InstIndex(call[p].iid)].card_id = call[p].card_id
    /\ \A p \in Procs : \A q \in Procs \ {p} :
          LET c == call[p].card_id
          IN  ( /\ call[p].pc \in {"audit", "done"}
                /\ call[q].pc \in {"audit", "done"}
                /\ call[q].card_id = c
                /\ cards[c].max_supply # None
                /\ call[p].seen = call[q].seen
                /\ Cardinality(call[p].seen) = Val(cards[c].max_supply) - 1
                /\ \A i \in call[p].seen \cup {InstIndex(call[p].iid), InstIndex(call[q].iid)} :
                      is_active(instances[i], now) )
              => ActiveCount(c, now) > Val(cards[c].max_supply)
    /\ ~result.overlap =>
          \A c \in DOMAIN cards :
             cards[c].max_supply # None => ActiveCount(c, now) <= Val(cards[c].max_supply)

\* Two handlers read a card of max_supply 1 with no instance, then both
\* inserted and wrote their audit entries: the card has two active instances
C23_Witness ==
    /\ result.overlap
    /\ \A p \in Procs : call[p].pc = "done" /\ call[p].res = "ok" /\ call[p].seen = {}
    /\ call[1].card_id = call[2].card_id
    /\ cards[call[1].card_id].max_supply = Some(1)
    /\ ActiveCount(call[1].card_id, now) = 2

\* The entries a run added to the audit log for instance i
C24_Added(d, i) ==
    {k \in (Len(audit) + 1)..Len(d.audit) : d.audit[k].target_id = i}

\* C24: a run of process_expired_cards fetches the instances whose
\* expires_at is <= now and whose removed_at is absent.  Each of them that is
\* processed without an exception gets removed_at = now with the revoker
\* absent and one audit entry "card_instance_expired" of actor 0, whatever
\* became of the instances before it in the batch; the instances not fetched
\* (not yet expired, without expiry, already removed) are left as they are
\* and get no entry; the entries already in the log and the cards are kept;
\* and no instance the run removed is fetched again, then or later.
C24_ExpiryRun ==
    LET fetched == {InstBase + k : k \in {j \in DOMAIN instances :
                                            /\ instances[j].removed_at = None
                                            /\ instances[j].expires_at # None
                                            /\ Val(instances[j].expires_at) <= now}}
    IN  \A expired_instances \in Perms(fetched), outcome \in [fetched -> ExpiryOutcomes] :
           LET d == process_expired_loop(DB, expired_instances, outcome, now)
           IN  /\ Reply(d, IF fetched = {} THEN "none_found" ELSE "ok", 0)
                     \in process_expired_cards(DB, now)
               /\ d.cards = cards
               /\ Len(d.instances) = Len(instances)
               /\ SubSeq(d.audit, 1, Len(audit)) = audit
               /\ \A k \in DOMAIN instances :
                     LET i == InstBase + k
                     IN  IF i \in fetched /\ outcome[i] = "done"
                         THEN /\ d.instances[k] = [instances[k] EXCEPT !.removed_at = Some(now)]
                              /\ d.instances[k].revoked_by_user_id = None
                              /\ Cardinality(C24_Added(d, i)) = 1
                              /\ \A a \in C24_Added(d, i) :
                                    /\ d.audit[a].action = "card_instance_expired"
                                    /\ d.audit[a].actor_user_id = 0
                                    /\ d.audit[a].target_type = "card_instance"
                         ELSE IF i \in fetched /\ outcome[i] = "audit"
                         THEN /\ d.instances[k] = [instances[k] EXCEPT !.removed_at = Some(now)]
                              /\ C24_Added(d, i) = {}
                         ELSE /\ d.instances[k] = instances[k]
                              /\ C24_Added(d, i) = {}
               /\ \A t \in {now, now + 1} :
                     \A i \in CardInstanceCRUD_get_expired_instances(d.instances, t) :
                        /\ d.instances[InstIndex(i)] = instances[InstIndex(i)]
                        /\ i \in fetched => outcome[i] = "remove"

\* Two expired instances are fetched; a run in which CardInstanceCRUD.remove
\* raises on the one taken first still removes and logs the other
C24_Witness ==
    /\ CardInstanceCRUD_get_expired_instances(instances, now) = {InstBase + 1, InstBase + 2}
    /\ LET outcome == [i \in {InstBase + 1, InstBase + 2} |->
                         IF i = InstBase + 1 THEN "remove" ELSE "done"]
           d == process_expired_loop(DB, <<InstBase + 1, InstBase + 2>>, outcome, now)
       IN  /\ Reply(d, "ok", 0) \in process_expired_cards(DB, now)
           /\ d.instances[1].removed_at = None
           /\ d.instances[2].removed_at = Some(now)
           /\ d.instances[2].revoked_by_user_id = None
           /\ Len(d.audit) = Len(audit) + 1
           /\ d.audit[Len(d.audit)].action = "card_instance_expired"
           /\ d.audit[Len(d.audit)].target_id = InstBase + 2

\* The removal entries of the audit log for instance i
C25_RemovalEntries(i, actions) ==
    {k \in DOMAIN audit : audit[k].target_id = i /\ audit[k].action \in actions}

\* C25: whatever way a moderator's remove and the scheduler's run
\* interleave on an instance, at most one of the two sets its removed_at,
\* at most one entry "card_instance_removed" or "card_instance_expired" is
\* written for it, exactly one once both have finished with an instance
\* that is removed, and an entry "card_instance_expired" is there only for
\* an instance on which the remove of the scheduler set removed_at.
C25_OneRemovalOneEntry ==
    \A k \in DOMAIN instances :
       LET i == InstBase + k
           entries == C25_RemovalEntries(i, {"card_instance_removed", "card_instance_expired"})
       IN  /\ ~(i \in call.sched.wrote /\ i \in call.mod.wrote)
           /\ Cardinality(entries) <= 1
           /\ ( /\ call.sched.pc = "idle"
                /\ call.mod.pc = "idle"
                /\ instances[k].removed_at # None ) => Cardinality(entries) = 1
           /\ C25_RemovalEntries(i, {"card_instance_expired"}) # {} => i \in call.sched.wrote

\* C26: bulk-approve(count) by an administrator, 1 <= count <= 10, approves
\* the count oldest SUBMITTED cards, all of them when there are fewer: the
\* cards it approves were SUBMITTED, are Min(count, number of submitted
\* cards) many, and none of the submitted cards it leaves was created
\* before one it approves; it writes one entry "card_bulk_approved" for each
\* card it approves and no other entry, and leaves every other card as it
\* was.
C26_BulkApproveOldest ==
    result = None =>
       \A count \in 1..BULK_MAX :
          \A r \in admin_bulk_approve_cards(DB, now, 2, ADMIN, count) :
             LET submitted == {c \in DOMAIN cards : cards[c].status = SUBMITTED}
                 approved  == {c \in DOMAIN cards : r.db.cards[c] # cards[c]}
             IN  /\ DOMAIN r.db.cards = DOMAIN cards
                 /\ approved \subseteq submitted
                 /\ Cardinality(approved) = Min(count, Cardinality(submitted))
                 /\ \A c \in approved :
                       /\ r.db.cards[c].status = APPROVED
                       /\ \A o \in submitted \ approved :
                             cards[c].created_at <= cards[o].created_at
                       /\ Cardinality({k \in DOMAIN r.db.audit :
                                          /\ r.db.audit[k].action = "card_bulk_approved"
                                          /\ r.db.audit[k].target_id = c}) = 1
                 /\ Len(r.db.audit) = Len(audit) + Cardinality(approved)
                 /\ SubSeq(r.db.audit, 1, Len(audit)) = audit
                 /\ r.db.instances = instances

\* The list a call leaves in a column: the list passed, or the list stored
\* (NULL for a guild without a row) when None is passed
C27_Expected(argument, column) ==
    IF argument # None THEN Some(Val(argument))
    ELSE IF call.configs[call.guild_id] = None THEN None
    ELSE Val(call.configs[call.guild_id])[column]

\* C27: setup_guild_permissions overwrites the lists that are given and no
\* others.  When it returns True the guild has a row in which each of
\* admin_role_ids, mod_role_ids, admin_user_ids and mod_user_ids is the list
\* passed or, for None, the list that was stored; whatever it returns, every
\* other field of that row is as it was (as in a new row for a guild that had
\* none) and the row of every other guild is untouched.
C27_PartialUpdate ==
    result # None =>
       LET after == Val(result).configs
           g     == call.guild_id
       IN  /\ \A o \in SetupGuildIds \ {g} : after[o] = call.configs[o]
           /\ after[g] # None =>
                 /\ Val(after[g]).guild_id = g
                 /\ Val(after[g]).auto_approve_cards =
                       (IF call.configs[g] = None THEN FALSE
                        ELSE Val(call.configs[g]).auto_approve_cards)
           /\ Val(result).ret =>
                 /\ after[g] # None
                 /\ Val(after[g]).admin_role_ids = C27_Expected(call.admin_role_ids, "admin_role_ids")
                 /\ Val(after[g]).mod_role_ids = C27_Expected(call.mod_role_ids, "mod_role_ids")
                 /\ Val(after[g]).admin_user_ids = C27_Expected(call.admin_user_ids, "admin_user_ids")
                 /\ Val(after[g]).mod_user_ids = C27_Expected(call.mod_user_ids, "mod_user_ids")
           /\ ~Val(result).ret =>
                 after[g] \in {call.configs[g], Some(GuildConfig_new(g))}

\* A row with all four lists stored; the call passed two lists, one of them
\* empty, and None for the others: the two are replaced, the others kept
C27_Witness ==
    /\ result # None
    /\ Val(result).ret
    /\ call.configs[1] # None
    /\ \A column \in {"admin_role_ids", "mod_role_ids", "admin_user_ids", "mod_user_ids"} :
          Val(call.configs[1])[column] = Some(<<1>>)
    /\ call.admin_role_ids = Some(<<2>>)
    /\ call.mod_role_ids = None
    /\ call.admin_user_ids = Some(<<>>)
    /\ call.mod_user_ids = None
    /\ Val(Val(result).configs[1]).admin_role_ids = Some(<<2>>)
    /\ Val(Val(result).configs[1]).mod_role_ids = Some(<<1>>)
    /\ Val(Val(result).configs[1]).admin_user_ids = Some(<<>>)
    /\ Val(Val(result).configs[1]).mod_user_ids = Some(<<1>>)

\* C28: in a PaginationView over n >= 2 pages current_page stays in 0..n-1
\* under every sequence of presses; first leaves page 0 and last page n-1;
\* next leaves the following page, and page 0 when pressed on page n-1;
\* previous leaves the preceding page, and page n-1 when pressed on page 0.
\* A view over 0 or 1 pages has no button.
C28_PagesWrapAround ==
    LET n == call.total_pages
    IN  /\ n <= 1 => call.items = {} /\ result = None
        /\ n >= 2 =>
              /\ call.current_page \in 0..(n - 1)
              /\ {"first_page", "previous_page", "next_page", "last_page"} \subseteq call.items
              /\ result # None =>
                    LET page == Val(result).page
                    IN  /\ Val(result).button = "first_page" => call.current_page = 0
                        /\ Val(result).button = "last_page" => call.current_page = n - 1
                        /\ Val(result).button = "next_page" =>
                              call.current_page = (IF page = n - 1 THEN 0 ELSE page + 1)
                        /\ Val(result).button = "previous_page" =>
                              call.current_page = (IF page = 0 THEN n - 1 ELSE page - 1)
                        /\ Val(result).button = "delete_message" => call.current_page = page

\* previous was pressed on page 0 of a view over three pages
C28_Witness ==
    /\ call.total_pages = 3
    /\ result = Some([button |-> "previous_page", page |-> 0])
    /\ call.current_page = 2

\* The stages of main in their order
C29_Order == <<"environment", "database", "bot", "web", "scheduler", "health">>

\* C29: main runs its stages in the order environment check, database
\* initialization, bot start, web server start, scheduler start, health
\* check.  With a required environment variable missing, or the database
\* initialization failed, main returns 1 with no service started and no later
\* stage run; a failed bot or web server start returns 1; a failed scheduler
\* start does not: with the four stages before it passed, main goes on to
\* the health check and the running state, and returns 0 on shutdown.
C29_StartupOrder ==
    LET env_ok == RequiredEnvVars \subseteq call.env.vars
        n      == Len(result.stages)
    IN  /\ n <= Len(C29_Order)
        /\ result.stages = SubSeq(C29_Order, 1, n)
        /\ (~env_ok /\ n > 0) =>
              /\ result.stages = <<"environment">>
              /\ result.services = {}
              /\ result.code = Some(1)
        /\ (env_ok /\ ~call.database /\ n > 1) =>
              /\ result.stages = <<"environment", "database">>
              /\ result.services = {}
              /\ result.code = Some(1)
        /\ (env_ok /\ call.database /\ ~call.bot /\ n > 2) =>
              /\ n = 3
              /\ result.code = Some(1)
        /\ (env_ok /\ call.database /\ call.bot /\ ~call.web /\ n > 3) =>
              /\ n = 4
              /\ result.code = Some(1)
        /\ (env_ok /\ call.database /\ call.bot /\ call.web) =>
              /\ result.code \in {None, Some(0)}
              /\ n = 5 => result.pc = "health"
              /\ n = 6 => result.pc \in {"running", "return"}
              /\ result.code = Some(0) => n = 6
              /\ {"discord_bot", "web_server"} \subseteq result.services <=> n >= 4
        /\ result.pc = "running" => result.code = None /\ n = 6
        /\ "schedulers" \in result.services <=> (call.scheduler /\ n >= 5)

\* The schedulers did not start; main is in the running state, with the bot
\* and the web server started
C29_Witness ==
    /\ ~call.scheduler
    /\ result.pc = "running"
    /\ result.services = {"discord_bot", "web_server"}
    /\ result.stages = C29_Order

\* The actions the approving, rejecting, assigning and removing handlers log
C30_Actions == {handler_action(via, op) : via \in {"bot", "api"}, op \in OrderOps}

\* The tables show the mutation an entry of these handlers speaks of
C30_TookPlace(entry) ==
    LET id == entry.target_id
    IN  CASE entry.action \in {"card_approved", "card_approved_via_api", "card_bulk_approved"} ->
                /\ id \in DOMAIN cards
                /\ cards[id].status = APPROVED
                /\ cards[id].approved_by_user_id = Some(entry.actor_user_id)
          [] entry.action \in {"card_rejected", "card_rejected_via_api"} ->
                id \in DOMAIN cards /\ cards[id].status = REJECTED
          [] entry.action \in {"card_assigned", "card_assigned_via_api"} ->
                InstExists(instances, id)
          [] OTHER ->
                /\ InstExists(instances, id)
                /\ instances[InstIndex(id)].removed_at # None
                /\ instances[InstIndex(id)].revoked_by_user_id = Some(entry.actor_user_id)

\* C30: in the handlers that approve, reject, assign or remove, the audit
\* entry is written after the mutation is committed and before the success
\* response: every entry of these handlers is for a mutation the tables
\* show, an entry the running handler wrote is for something it has already
\* mutated, and when the caller has been sent the success response, each
\* thing the handler mutated has its entry, written by this handler.
C30_AuditBetween ==
    /\ \A i \in DOMAIN audit :
          audit[i].action \in C30_Actions =>
             /\ C30_TookPlace(audit[i])
             /\ audit[i].id > call.startSeq => audit[i].target_id \in call.mutated
    /\ result.response = "success" =>
          /\ call.mutated # {}
          /\ \A x \in call.mutated :
                \E i \in DOMAIN audit :
                   /\ audit[i].id > call.startSeq
                   /\ audit[i].action = handler_action(call.via, call.op)
                   /\ audit[i].target_type = handler_target_type(call.op)
                   /\ audit[i].target_id = x
                   /\ audit[i].actor_user_id = call.user

\* The remove command has answered with its success message: the instance is
\* removed and the entry is there
C30_Witness ==
    /\ call.op = "remove"
    /\ call.pc = "done"
    /\ result.response = "success"
    /\ \E i \in DOMAIN audit :
          /\ audit[i].action = "card_instance_removed"
          /\ audit[i].target_id \in call.mutated
          /\ instances[InstIndex(audit[i].target_id)].removed_at # None

====
